---- MODULE Spec2Model ----
(***************************************************************************)
(* archive-gmail: the mailbox synchronisation engine.                      *)
(*                                                                         *)
(*   Spec      runBackup's dispatcher, the ProcessMailbox workers, their   *)
(*             fetch goroutines, the shared IMAP connection and the disk.  *)
(*   SpecRuns  the same, run several times on one backup directory.        *)
(*   SpecOld   the same with the older ProcessMailbox of the package.      *)
(*   SpecChunk the scan in chunks of the processMailbox of src/main.go.    *)
(*   SpecPool  one run with the MaxWorkers read from the environment.      *)
(*   SpecWrap  the unsigned arithmetic of the scans on UidNext.            *)
(*   SpecFair  one run with two workers, with fairness, to its end.        *)
(*   SpecQuiet the same, with a server that need not answer.               *)
(*   SpecCron  main in scheduled mode: the running flag, the cron ticks.   *)
(*   SpecAuth  runBackup's start: the configuration check, Connect and the *)
(*             OAuth2 token handling.                                      *)
(*   SpecWhole runBackup from the configuration check to the report.       *)
(*                                                                         *)
(* Time is abstract: a deadline (context.WithTimeout) may expire at any    *)
(* step at which the goroutine waits on it, a sleep is a delay only.       *)
(* The IMAP server decides what a command returns; it is the source of     *)
(* the nondeterminism of Select, UidFetch and of the file system calls.    *)
(***************************************************************************)
EXTENDS Integers, Sequences, FiniteSets, TLC

(***************************************************************************)
(* Bounds of the model.                                                    *)
(***************************************************************************)
\* UIDs of a mailbox are drawn from 1..MaxUID
MaxUID == 2
\* cfg.MaxWorkers is drawn from 1..MaxWorkersBound
MaxWorkersBound == 2
\* number of consecutive runBackup cycles on the same backup directory
MaxRuns == 2
\* an account holds at most MaxMsgs messages
MaxMsgs == 2
\* cfg.FoldersOnly holds at most MaxAllow names
MaxAllow == 2

\* the cron ticks that are followed
MaxTicks == 2

\* chunkSize of the chunked scan (2000 in the source, scaled)
ChunkSize == 2
\* capacity of the message channel of a chunk (200 in the source, scaled)
ChunkCap == 1

\* width in bits of a UID where its arithmetic is followed (32 in the source)
UidBits == 4
\* chunkSize where the arithmetic is followed: like 2000 and 50 in 32 bits,
\* a size that does not divide the modulus
WrapChunkSize == 3

(***************************************************************************)
(* Mailbox names are sequences of characters, so that MailboxDir can       *)
(* replace the hierarchy separator as strings.ReplaceAll does.             *)
(***************************************************************************)
BoxNames == << <<"I">>, <<"a", "/", "b">>, <<"a", "_", "b">> >>

NameSet == {BoxNames[n] : n \in 1..Len(BoxNames)}

\* no mailbox is selected on the connection
NoBox == <<>>

\* cfg.BackupDir
BackupDir == <<"m">>

\* capacity of the uidMsgs channel (1000 in the source, scaled)
UidMsgsCap == 2

VARIABLES
    cfg,        \* config.Config: MaxWorkers, FoldersOnly, DryRun
    server,     \* the account: mailbox name -> the UIDs it holds
    mailboxes,  \* what ListMailboxes returned
    files,      \* message files on disk (paths)
    dirs,       \* directories on disk
    rb,         \* runBackup: pc, loop index, sem, wg, downloaded, mu, reported;
                \* incs counts the increments performed
    wk,         \* ProcessMailbox, one per dispatched mailbox (by list index)
    sg,         \* the scan's UidFetch goroutine of each worker
    uidMsgs,    \* the scan's message channel of each worker
    fetchErr,   \* the scan's fetch-completion channel of each worker
    bg,         \* the body UidFetch goroutine of each worker's current UID
    msgs,       \* the body fetch's message channel
    linger,     \* abandoned fetches of each running worker still in flight
    selected,   \* the mailbox selected on the shared connection
    run,        \* history of the cycles on this backup directory
    flags,      \* server side: the mode of the selection, what the engine changed
    cr,         \* scheduled mode: the running flag and the goroutines of main
    au          \* runBackup's start: configuration check, Connect, OAuth2

engineVars == <<cfg, server, mailboxes, files, dirs, rb, wk, sg, uidMsgs, fetchErr,
                bg, msgs, linger, selected, run, flags>>

vars == <<engineVars, cr, au>>

(***************************************************************************)
(* Pure helpers                                                            *)
(***************************************************************************)
RECURSIVE SeqOfSet(_)
\* the elements of a set of numbers in ascending order
SeqOfSet(S) ==
    IF S = {} THEN <<>>
    ELSE LET m == CHOOSE x \in S : \A y \in S : x <= y
         IN  <<m>> \o SeqOfSet(S \ {m})

RECURSIVE FilterSeq(_, _)
\* the subsequence of s whose elements are in S
FilterSeq(s, S) ==
    IF s = <<>> THEN <<>>
    ELSE IF Head(s) \in S THEN <<Head(s)>> \o FilterSeq(Tail(s), S)
         ELSE FilterSeq(Tail(s), S)

\* filepath.Join of two non-empty elements
Join(a, b) == a \o <<"/">> \o b

\* strings.ReplaceAll(box, "/", "_")
ReplaceSlash(box) == [n \in 1..Len(box) |-> IF box[n] = "/" THEN "_" ELSE box[n]]

MailboxDir(base, box) == Join(base, ReplaceSlash(box))

\* filepath.Join(MailboxDir(base, box), fmt.Sprintf("%d.eml", msgID))
MessagePath(base, box, msgID) == [dir |-> MailboxDir(base, box), uid |-> msgID]

\* utils.Exists: os.Stat succeeds
Exists(path) == path \in files

\* what SELECT reports for a mailbox
Messages(box) == Cardinality(server[box])

UidNext(box) ==
    IF server[box] = {} THEN 1
    ELSE (CHOOSE x \in server[box] : \A y \in server[box] : y <= x) + 1


(***************************************************************************)
(* Initial values of the per-worker state                                  *)
(***************************************************************************)
Boxes == 1..Len(mailboxes)

IdleWorker ==
    [pc |-> "idle", retry |-> 0, slept |-> <<>>, messages |-> 0, uidNext |-> 0,
     missing |-> <<>>, seen |-> <<>>, exit |-> "none", k |-> 1,
     drainExpired |-> FALSE, fetched |-> <<>>, paced |-> 0, tmp |-> 0,
     chunkStart |-> 0, asked |-> <<>>, variant |-> "none"]

\* a worker that is lost after its ProcessMailbox ends and never gives back
\* its slot
StuckWorker == [IdleWorker EXCEPT !.pc = "aborted"]

\* ProcessMailbox has returned: its locals are gone
Returned == [IdleWorker EXCEPT !.pc = "ret"]

NoScan == [st |-> "none", todo |-> <<>>, on |-> NoBox]

NoBody == [st |-> "none", uid |-> 0, on |-> NoBox, uids |-> {}, peek |-> TRUE]

\* the server state the engine could change: readOnly is the mode of the
\* current selection, opened the mailboxes that were selected read-write (and
\* lost their \Recent flags), seen the messages marked \Seen by a fetch
NoFlags == [readOnly |-> TRUE, opened |-> {}, seen |-> {}]

OpenChan == [buf |-> <<>>, closed |-> FALSE]

NoLinger == [scan |-> 0, body |-> 0]

FreshRun(n, prev, had) ==
    [n |-> n, clean |-> TRUE, prevClean |-> prev, had |-> had]

\* the parts of the program a specification does not follow
CronOff == [on |-> FALSE]

AuthOff == [on |-> FALSE]

\* runBackup at line 40: connected, mailboxes listed, counter and semaphore made
StartOfRun ==
    [pc |-> "loop", i |-> 1, sem |-> 0, wg |-> 0, downloaded |-> 0, mu |-> 0,
     reported |-> -1, incs |-> 0]

(***************************************************************************)
(* runBackup: the dispatch loop (cmd/archive-gmail/main.go 49-68)          *)
(***************************************************************************)

\* a dispatcher that ignores FoldersOnly
AllowedAny(box) == TRUE

\* the allow-list test of line 50, negated: the mailbox is processed
Allowed(box) == ~(Cardinality(cfg.FoldersOnly) > 0 /\ box \notin cfg.FoldersOnly)

\* a dispatcher that never waits for a slot (the pool without its semaphore)
SemFreeUnbounded == TRUE

\* sem <- struct{}{} can proceed: the buffered channel is not full
SemFree == rb.sem < cfg.MaxWorkers

engineFixed == <<cfg, server, mailboxes, cr, au>>

engineRest == <<engineFixed, flags>>

Skip ==
    /\ rb.pc = "loop"
    /\ rb.i <= Len(mailboxes)
    /\ ~Allowed(mailboxes[rb.i])
    /\ rb' = [rb EXCEPT !.i = @ + 1]
    /\ UNCHANGED <<engineRest, files, dirs, wk, sg, uidMsgs, fetchErr, bg, msgs,
                   linger, selected, run>>

\* sem <- struct{}{}; wg.Add(1); go func(boxName)
Dispatch ==
    /\ rb.pc = "loop"
    /\ rb.i <= Len(mailboxes)
    /\ Allowed(mailboxes[rb.i])
    /\ SemFree
    /\ rb' = [rb EXCEPT !.i = @ + 1, !.sem = @ + 1, !.wg = @ + 1]
    /\ wk' = [wk EXCEPT ![rb.i].pc = "select"]
    /\ UNCHANGED <<engineRest, files, dirs, sg, uidMsgs, fetchErr, bg, msgs,
                   linger, selected, run>>

LoopEnd ==
    /\ rb.pc = "loop"
    /\ rb.i > Len(mailboxes)
    /\ rb' = [rb EXCEPT !.pc = "wait"]
    /\ UNCHANGED <<engineRest, files, dirs, wk, sg, uidMsgs, fetchErr, bg, msgs,
                   linger, selected, run>>

\* a wg.Wait that returns with workers still running
WgZeroAlways == TRUE

\* wg.Wait() can return: the counter of the WaitGroup is zero
WgZero == rb.wg = 0

\* wg.Wait() returns; the counter is read and the rate reported (64-68)
Wait ==
    /\ rb.pc = "wait"
    /\ WgZero
    /\ rb' = [rb EXCEPT !.pc = "done", !.reported = rb.downloaded]
    /\ UNCHANGED <<engineRest, files, dirs, wk, sg, uidMsgs, fetchErr, bg, msgs,
                   linger, selected, run>>

\* the deferred func() { <-sem }() of the worker goroutine, run first (LIFO)
Release(i) ==
    /\ wk[i].pc = "ret"
    /\ wk' = [wk EXCEPT ![i].pc = "released"]
    /\ rb' = [rb EXCEPT !.sem = @ - 1]
    /\ UNCHANGED <<engineRest, files, dirs, sg, uidMsgs, fetchErr, bg, msgs,
                   linger, selected, run>>

\* the deferred wg.Done()
WgDone(i) ==
    /\ wk[i].pc = "released"
    /\ wk' = [wk EXCEPT ![i].pc = "exited"]
    /\ rb' = [rb EXCEPT !.wg = @ - 1]
    /\ UNCHANGED <<engineRest, files, dirs, sg, uidMsgs, fetchErr, bg, msgs,
                   linger, selected, run>>

(***************************************************************************)
(* ProcessMailbox (internal/services/gmailService/gmail_service.go 366-456)*)
(***************************************************************************)
BoxOf(i) == mailboxes[i]

Dirty == [run EXCEPT !.clean = FALSE]

\* what the worker of mailbox i has written to the log: the logrus.Infof of
\* line 367 is the only logging call of ProcessMailbox (366-456)
Logged(i) ==
    IF wk[i].pc = "idle" THEN <<>>
    ELSE << [line |-> "Processing", box |-> BoxOf(i)] >>

\* a SELECT that opens the mailbox read-write
SelectReadWrite == FALSE

\* the readOnly argument of c.Select(box, true) at line 372
SelectReadOnly == TRUE

\* c.Select(box, true) succeeds (371-381)
SelectOK(i) ==
    /\ wk[i].pc = "select"
    /\ selected' = BoxOf(i)
    /\ flags' = [flags EXCEPT !.readOnly = SelectReadOnly,
                              !.opened = IF SelectReadOnly THEN @ ELSE @ \cup {BoxOf(i)}]
    /\ wk' = [wk EXCEPT ![i] = IF Messages(BoxOf(i)) = 0 THEN Returned
                                 ELSE [@ EXCEPT !.messages = Messages(BoxOf(i)),
                                                !.uidNext = UidNext(BoxOf(i)),
                                                !.pc = "ensureDir"]]
    /\ UNCHANGED <<engineFixed, files, dirs, rb, sg, uidMsgs, fetchErr, bg, msgs,
                   linger, run>>

\* c.Select fails: sleep (retry+1) seconds, give up after the third attempt
SelectFail(i) ==
    /\ wk[i].pc = "select"
    /\ selected' = NoBox
    /\ wk' = [wk EXCEPT ![i].retry = @ + 1,
                        ![i].slept = Append(@, wk[i].retry + 1),
                        ![i].pc = IF wk[i].retry + 1 < 3 THEN "select" ELSE "giveup"]
    /\ run' = Dirty
    /\ UNCHANGED <<engineRest, files, dirs, rb, sg, uidMsgs, fetchErr, bg, msgs,
                   linger>>

\* an early return that skips the release of the slot
SelectGiveUpKeepsSlot(i) ==
    /\ wk[i].pc = "giveup"
    /\ wk' = [wk EXCEPT ![i] = [IdleWorker EXCEPT !.pc = "released"]]
    /\ UNCHANGED <<engineRest, files, dirs, rb, sg, uidMsgs, fetchErr, bg, msgs,
                   linger, selected, run>>

\* selectErr != nil after the loop: ProcessMailbox returns (379-381)
SelectGiveUp(i) ==
    /\ wk[i].pc = "giveup"
    /\ wk' = [wk EXCEPT ![i] = Returned]
    /\ UNCHANGED <<engineRest, files, dirs, rb, sg, uidMsgs, fetchErr, bg, msgs,
                   linger, selected, run>>

\* utils.EnsureDir(path, dry): the directories on disk after a successful call
EnsureDir(path, dry) == IF dry THEN dirs ELSE dirs \cup {path}

\* EnsureDir succeeds; the scan's channels are made and its UidFetch goroutine
\* is started (383-399)
MkDir(i) ==
    /\ wk[i].pc = "ensureDir"
    /\ dirs' = EnsureDir(MailboxDir(BackupDir, BoxOf(i)), cfg.DryRun)
    /\ wk' = [wk EXCEPT ![i].pc = "scan", ![i].retry = 0, ![i].slept = <<>>]
    /\ uidMsgs' = [uidMsgs EXCEPT ![i] = OpenChan]
    /\ fetchErr' = [fetchErr EXCEPT ![i] = <<>>]
    /\ sg' = [sg EXCEPT ![i] = [NoScan EXCEPT !.st = "start"]]
    /\ UNCHANGED <<engineRest, files, rb, bg, msgs, linger, selected, run>>

\* os.MkdirAll fails: ProcessMailbox returns (383-385)
MkDirFail(i) ==
    /\ wk[i].pc = "ensureDir"
    /\ ~cfg.DryRun
    /\ wk' = [wk EXCEPT ![i] = Returned]
    /\ run' = Dirty
    /\ UNCHANGED <<engineRest, files, dirs, rb, sg, uidMsgs, fetchErr, bg, msgs,
                   linger, selected>>

\* the UIDs a UID FETCH 1:(uidNext-1) returns from the selected mailbox
ScanRange(box, uidNext) == SeqOfSet(server[box] \cap (1..(uidNext - 1)))

\* the goroutine of 395-397 issues the UID FETCH on the shared connection
ScanExec(i) ==
    /\ sg[i].st = "start"
    /\ IF selected = NoBox
       THEN /\ sg' = [sg EXCEPT ![i].st = "ret"]
            /\ uidMsgs' = [uidMsgs EXCEPT ![i].closed = TRUE]
            /\ fetchErr' = [fetchErr EXCEPT ![i] = <<"err">>]
            /\ run' = Dirty
       ELSE /\ sg' = [sg EXCEPT ![i].st = "run", ![i].on = selected,
                                ![i].todo = ScanRange(selected, wk[i].uidNext)]
            /\ UNCHANGED <<uidMsgs, fetchErr, run>>
    /\ UNCHANGED <<engineRest, files, dirs, rb, wk, bg, msgs, linger, selected>>

\* UidFetch hands the next response to the message channel
FetchSend(i) ==
    /\ sg[i].st = "run"
    /\ sg[i].todo # <<>>
    /\ ~uidMsgs[i].closed
    /\ Len(uidMsgs[i].buf) < UidMsgsCap
    /\ uidMsgs' = [uidMsgs EXCEPT ![i].buf = Append(@, Head(sg[i].todo))]
    /\ sg' = [sg EXCEPT ![i].todo = Tail(@)]
    /\ UNCHANGED <<engineRest, files, dirs, rb, wk, fetchErr, bg, msgs, linger,
                   selected, run>>

\* UidFetch returns nil: the channel is closed, fetchErr <- nil
FetchEnd(i) ==
    /\ sg[i].st = "run"
    /\ sg[i].todo = <<>>
    /\ sg' = [sg EXCEPT ![i].st = "ret"]
    /\ uidMsgs' = [uidMsgs EXCEPT ![i].closed = TRUE]
    /\ fetchErr' = [fetchErr EXCEPT ![i] = <<"nil">>]
    /\ UNCHANGED <<engineRest, files, dirs, rb, wk, bg, msgs, linger, selected, run>>

\* UidFetch returns an error: the channel is closed, fetchErr <- err
FetchFail(i) ==
    /\ sg[i].st = "run"
    /\ sg' = [sg EXCEPT ![i].st = "ret"]
    /\ uidMsgs' = [uidMsgs EXCEPT ![i].closed = TRUE]
    /\ fetchErr' = [fetchErr EXCEPT ![i] = <<"err">>]
    /\ run' = Dirty
    /\ UNCHANGED <<engineRest, files, dirs, rb, wk, bg, msgs, linger, selected>>

(***************************************************************************)
(* The scan loop: select over uidMsgs, fetchErr and ctx.Done (401-419)     *)
(***************************************************************************)
\* a scan that takes every UID it receives for missing
NoteUIDAlways(missing, box, uid) == Append(missing, uid)

\* missingUIDs after one received message (408-411)
NoteUID(missing, box, uid) ==
    IF ~Exists(MessagePath(BackupDir, box, uid)) THEN Append(missing, uid) ELSE missing

\* a scan that asks for the body of a missing UID as soon as it sees it
ScanRecvFetches(i) ==
    /\ wk[i].pc = "scan"
    /\ uidMsgs[i].buf # <<>>
    /\ wk' = [wk EXCEPT ![i].seen = Append(@, Head(uidMsgs[i].buf)),
                        ![i].missing = NoteUID(@, BoxOf(i), Head(uidMsgs[i].buf))]
    /\ uidMsgs' = [uidMsgs EXCEPT ![i].buf = Tail(@)]
    /\ bg' = [bg EXCEPT ![i] = [NoBody EXCEPT !.st = "start",
                                              !.uid = Head(uidMsgs[i].buf)]]
    /\ UNCHANGED <<engineRest, files, dirs, rb, sg, fetchErr, msgs, linger,
                   selected, run>>

\* case msg, ok := <-uidMsgs with ok
ScanRecv(i) ==
    /\ wk[i].pc = "scan"
    /\ uidMsgs[i].buf # <<>>
    /\ wk' = [wk EXCEPT ![i].seen = Append(@, Head(uidMsgs[i].buf)),
                        ![i].missing = NoteUID(@, BoxOf(i), Head(uidMsgs[i].buf))]
    /\ uidMsgs' = [uidMsgs EXCEPT ![i].buf = Tail(@)]
    /\ UNCHANGED <<engineRest, files, dirs, rb, sg, fetchErr, bg, msgs, linger,
                   selected, run>>

\* the worker leaves the scan loop: nothing reads uidMsgs and fetchErr any
\* more; a UidFetch that has not returned stays in flight on the connection
LeaveScan(i) ==
    /\ sg' = [sg EXCEPT ![i] = [NoScan EXCEPT !.st = "left", !.on = sg[i].on]]
    /\ uidMsgs' = [uidMsgs EXCEPT ![i] = OpenChan]
    /\ fetchErr' = [fetchErr EXCEPT ![i] = <<>>]
    /\ linger' = [linger EXCEPT ![i].scan = IF sg[i].st \in {"start", "run"} THEN 1 ELSE 0]

\* case msg, ok := <-uidMsgs with !ok: break loop
ScanClosed(i) ==
    /\ wk[i].pc = "scan"
    /\ uidMsgs[i].buf = <<>>
    /\ uidMsgs[i].closed
    /\ wk' = [wk EXCEPT ![i].pc = "download", ![i].exit = "closed"]
    /\ LeaveScan(i)
    /\ UNCHANGED <<engineRest, files, dirs, rb, bg, msgs, selected, run>>

\* case <-fetchErr: DrainChannel(uidMsgs, 5s); break loop
ScanFetchErr(i) ==
    /\ wk[i].pc = "scan"
    /\ fetchErr[i] # <<>>
    /\ fetchErr' = [fetchErr EXCEPT ![i] = <<>>]
    /\ wk' = [wk EXCEPT ![i].pc = "drain",
                        ![i].exit = IF Head(fetchErr[i]) = "nil" THEN "fetchNil"
                                    ELSE "fetchErr"]
    /\ UNCHANGED <<engineRest, files, dirs, rb, sg, uidMsgs, bg, msgs, linger,
                   selected, run>>

\* a scan loop without its deadline
ScanNoDeadline(i) == FALSE /\ UNCHANGED vars

\* case <-ctx.Done(): the 90s deadline; DrainChannel(uidMsgs, 5s); break loop
ScanTimeout(i) ==
    /\ wk[i].pc = "scan"
    /\ sg[i].st # "start"     \* 90 s do not pass before the goroutine has run
    /\ wk' = [wk EXCEPT ![i].pc = "drain", ![i].exit = "timeout"]
    /\ run' = Dirty
    /\ UNCHANGED <<engineRest, files, dirs, rb, sg, uidMsgs, fetchErr, bg, msgs,
                   linger, selected>>

(***************************************************************************)
(* DrainChannel (277-295)                                                  *)
(***************************************************************************)
\* case _, ok := <-ch with ok: the value is dropped
DrainRecv(i) ==
    /\ wk[i].pc = "drain"
    /\ uidMsgs[i].buf # <<>>
    /\ uidMsgs' = [uidMsgs EXCEPT ![i].buf = Tail(@)]
    /\ UNCHANGED <<engineRest, files, dirs, rb, wk, sg, fetchErr, bg, msgs, linger,
                   selected, run>>

\* case _, ok := <-ch with !ok: return
DrainClosed(i) ==
    /\ wk[i].pc = "drain"
    /\ uidMsgs[i].buf = <<>>
    /\ uidMsgs[i].closed
    /\ wk' = [wk EXCEPT ![i].pc = "download"]
    /\ LeaveScan(i)
    /\ UNCHANGED <<engineRest, files, dirs, rb, bg, msgs, selected, run>>

\* case <-ctx.Done(): maxWait has passed, return
DrainTimeout(i) ==
    /\ wk[i].pc = "drain"
    /\ wk' = [wk EXCEPT ![i].pc = "download", ![i].drainExpired = TRUE]
    /\ LeaveScan(i)
    /\ run' = Dirty
    /\ UNCHANGED <<engineRest, files, dirs, rb, bg, msgs, selected>>

(***************************************************************************)
(* The download loop (421-455)                                             *)
(***************************************************************************)
\* range missingUIDs is exhausted: ProcessMailbox returns; the fetch goroutines
\* it has left behind are no longer followed
DownloadEnd(i) ==
    /\ wk[i].pc = "download"
    /\ wk[i].k > Len(wk[i].missing)
    /\ wk' = [wk EXCEPT ![i] = Returned]
    /\ linger' = [linger EXCEPT ![i] = NoLinger]
    /\ sg' = [sg EXCEPT ![i] = NoScan]
    /\ bg' = [bg EXCEPT ![i] = NoBody]
    /\ msgs' = [msgs EXCEPT ![i] = OpenChan]
    /\ UNCHANGED <<engineRest, files, dirs, rb, uidMsgs, fetchErr, selected, run>>

\* seq.AddNum(uid) at lines 424-425: the sequence set of a body fetch
BodySeq(uid) == {uid}

\* imap.BodySectionName{Peek: true} at line 426
BodyPeek == TRUE

\* the next UID: msgs is made and the body UidFetch goroutine started (422-431)
BodyIssue(i) ==
    /\ wk[i].pc = "download"
    /\ wk[i].k <= Len(wk[i].missing)
    /\ wk' = [wk EXCEPT ![i].pc = "await",
                        ![i].fetched = Append(@, wk[i].missing[wk[i].k]),
                        ![i].seen = <<>>, ![i].exit = "none",
                        ![i].drainExpired = FALSE]
    /\ msgs' = [msgs EXCEPT ![i] = OpenChan]
    /\ bg' = [bg EXCEPT ![i] = [NoBody EXCEPT !.st = "start",
                                              !.uid = wk[i].missing[wk[i].k],
                                              !.uids = BodySeq(wk[i].missing[wk[i].k]),
                                              !.peek = BodyPeek]]
    /\ sg' = [sg EXCEPT ![i] = NoScan]
    /\ UNCHANGED <<engineRest, files, dirs, rb, uidMsgs, fetchErr, linger,
                   selected, run>>

\* what the body of a returned message can be: readable, absent (GetBody
\* returns nil), or failing in io.ReadAll
BodyKinds == {"ok", "nobody", "readerr"}

\* the goroutine of 429-431 runs UID FETCH uid BODY.PEEK[] on the connection
\* and the server answers with the message; UidFetch closes msgs
BodyReply(i) ==
    /\ bg[i].st = "start"
    /\ selected # NoBox
    /\ bg[i].uid \in server[selected]
    /\ \E kind \in BodyKinds :
          /\ msgs' = [msgs EXCEPT ![i] = [buf |-> <<kind>>, closed |-> TRUE]]
          /\ run' = IF kind = "ok" THEN run ELSE Dirty
    /\ bg' = [bg EXCEPT ![i].st = "ret", ![i].on = selected]
    /\ flags' = IF bg[i].peek \/ flags.readOnly THEN flags
                ELSE [flags EXCEPT !.seen = @ \cup {<<selected, u>> :
                                                       u \in bg[i].uids \cap server[selected]}]
    /\ UNCHANGED <<engineFixed, files, dirs, rb, wk, sg, uidMsgs, fetchErr, linger,
                   selected>>

\* the body fetch ends without a message (no mailbox selected, no such UID
\* in the selected mailbox, or an error)
BodyEmpty(i) ==
    /\ bg[i].st = "start"
    /\ msgs' = [msgs EXCEPT ![i].closed = TRUE]
    /\ bg' = [bg EXCEPT ![i].st = "ret", ![i].on = selected]
    /\ run' = Dirty
    /\ UNCHANGED <<engineRest, files, dirs, rb, wk, sg, uidMsgs, fetchErr, linger,
                   selected>>

\* a download loop that ignores DryRun
StoresAlways(msg, dry) == msg = "ok"

\* the condition of line 443 under which the message is written and counted
Stores(msg, dry) == msg = "ok" /\ ~dry

\* os.WriteFile at line 447: it may fail, and it fails without the directory
WriteOutcomes(path) == IF path.dir \in dirs THEN BOOLEAN ELSE {FALSE}

\* case msg := <-msgs (434-449), up to mu.Lock
BodyRecv(i) ==
    /\ wk[i].pc = "await"
    /\ msgs[i].buf # <<>> \/ msgs[i].closed
    /\ LET msg == IF msgs[i].buf # <<>> THEN Head(msgs[i].buf) ELSE "nil"
           path == MessagePath(BackupDir, BoxOf(i), wk[i].missing[wk[i].k])
       IN  IF Stores(msg, cfg.DryRun)
           THEN /\ \E written \in WriteOutcomes(path) :
                      /\ files' = IF written THEN files \cup {path} ELSE files
                      /\ run' = IF written THEN run ELSE Dirty
                /\ wk' = [wk EXCEPT ![i].pc = "lock"]
           ELSE /\ wk' = [wk EXCEPT ![i].pc = "download", ![i].k = @ + 1,
                                    ![i].paced = @ + 1]
                /\ UNCHANGED <<files, run>>
    /\ msgs' = [msgs EXCEPT ![i].buf = <<>>]
    /\ UNCHANGED <<engineRest, dirs, rb, sg, uidMsgs, fetchErr, bg, linger, selected>>

\* a mutex that never excludes anybody
MuFreeAlways == TRUE

\* mu.Lock() can proceed
MuFree == rb.mu = 0

\* mu.Lock(); the read half of *downloaded++
Lock(i) ==
    /\ wk[i].pc = "lock"
    /\ MuFree
    /\ rb' = [rb EXCEPT !.mu = i]
    /\ wk' = [wk EXCEPT ![i].pc = "unlock", ![i].tmp = rb.downloaded]
    /\ UNCHANGED <<engineRest, files, dirs, sg, uidMsgs, fetchErr, bg, msgs, linger,
                   selected, run>>

\* the write half of *downloaded++; mu.Unlock(); cancel(); the 50ms sleep
Unlock(i) ==
    /\ wk[i].pc = "unlock"
    /\ rb' = [rb EXCEPT !.mu = 0, !.downloaded = wk[i].tmp + 1, !.incs = @ + 1]
    /\ wk' = [wk EXCEPT ![i].pc = "download", ![i].k = @ + 1, ![i].paced = @ + 1]
    /\ UNCHANGED <<engineRest, files, dirs, sg, uidMsgs, fetchErr, bg, msgs, linger,
                   selected, run>>

\* a download loop that gives the mailbox up at the first deadline
BodyTimeoutAborts(i) ==
    /\ wk[i].pc = "await"
    /\ wk' = [wk EXCEPT ![i] = Returned]
    /\ linger' = [linger EXCEPT ![i] = NoLinger]
    /\ bg' = [bg EXCEPT ![i] = NoBody]
    /\ run' = Dirty
    /\ UNCHANGED <<engineRest, files, dirs, rb, sg, uidMsgs, fetchErr, msgs, selected>>

\* case <-ctx.Done(): the 15s deadline; the goroutine is left behind
BodyTimeout(i) ==
    /\ wk[i].pc = "await"
    /\ wk' = [wk EXCEPT ![i].pc = "download", ![i].k = @ + 1, ![i].paced = @ + 1]
    /\ linger' = [linger EXCEPT ![i].body = IF bg[i].st = "start" THEN @ + 1 ELSE @]
    /\ bg' = [bg EXCEPT ![i] = NoBody]
    /\ run' = Dirty
    /\ UNCHANGED <<engineRest, files, dirs, rb, sg, uidMsgs, fetchErr, msgs, selected>>

\* an abandoned fetch of a running worker finishes; nobody reads its channel
LingerEnd(i) ==
    /\ \/ /\ linger[i].scan > 0
          /\ linger' = [linger EXCEPT ![i].scan = 0]
       \/ /\ linger[i].body > 0
          /\ linger' = [linger EXCEPT ![i].body = @ - 1]
    /\ UNCHANGED <<engineRest, files, dirs, rb, wk, sg, uidMsgs, fetchErr, bg, msgs,
                   selected, run>>

(***************************************************************************)
(* The program is run again on the same backup directory and account: a    *)
(* new process, a new connection, no goroutine of the previous run left.   *)
(***************************************************************************)
Rerun ==
    /\ rb.pc = "done"
    /\ run.n < MaxRuns
    /\ rb' = StartOfRun
    /\ wk' = [i \in Boxes |-> IdleWorker]
    /\ sg' = [i \in Boxes |-> NoScan]
    /\ uidMsgs' = [i \in Boxes |-> OpenChan]
    /\ fetchErr' = [i \in Boxes |-> <<>>]
    /\ bg' = [i \in Boxes |-> NoBody]
    /\ msgs' = [i \in Boxes |-> OpenChan]
    /\ linger' = [i \in Boxes |-> NoLinger]
    /\ selected' = NoBox
    /\ run' = FreshRun(run.n + 1, run.clean, files)
    /\ UNCHANGED <<engineRest, files, dirs>>

(***************************************************************************)
(* The specification                                                       *)
(***************************************************************************)
RECURSIVE Total(_, _)
\* the number of messages of account s in its first n mailboxes
Total(s, n) == IF n = 0 THEN 0 ELSE Cardinality(s[BoxNames[n]]) + Total(s, n - 1)

\* the accounts of Spec: every mailbox holds the UIDs 1..n for some n <= MaxUID,
\* the account at most MaxMsgs messages
Accounts ==
    {s \in [NameSet -> {1..n : n \in 0..MaxUID}] : Total(s, Len(BoxNames)) <= MaxMsgs}

\* FOLDERS_ONLY names at most MaxAllow mailboxes
Configs ==
    [MaxWorkers : 1..MaxWorkersBound,
     FoldersOnly : {S \in SUBSET NameSet : Cardinality(S) <= MaxAllow},
     DryRun : BOOLEAN]

\* runBackup has connected and listed the mailboxes of an empty backup directory
Start ==
    /\ mailboxes = BoxNames
    /\ files = {}
    /\ dirs = {}
    /\ rb = StartOfRun
    /\ wk = [i \in 1..Len(BoxNames) |-> IdleWorker]
    /\ sg = [i \in 1..Len(BoxNames) |-> NoScan]
    /\ uidMsgs = [i \in 1..Len(BoxNames) |-> OpenChan]
    /\ fetchErr = [i \in 1..Len(BoxNames) |-> <<>>]
    /\ bg = [i \in 1..Len(BoxNames) |-> NoBody]
    /\ msgs = [i \in 1..Len(BoxNames) |-> OpenChan]
    /\ linger = [i \in 1..Len(BoxNames) |-> NoLinger]
    /\ selected = NoBox
    /\ flags = NoFlags

\* Spec follows one run and does not record whether it was free of failures
Init ==
    /\ cfg \in Configs
    /\ server \in Accounts
    /\ Start
    /\ run = [n |-> 1, clean |-> FALSE, prevClean |-> FALSE, had |-> {}]
    /\ cr = CronOff
    /\ au = AuthOff

\* a step of a ProcessMailbox worker
Worker ==
    \/ \E i \in Boxes : SelectOK(i)
    \/ \E i \in Boxes : SelectFail(i)
    \/ \E i \in Boxes : SelectGiveUp(i)
    \/ \E i \in Boxes : MkDir(i)
    \/ \E i \in Boxes : MkDirFail(i)
    \/ \E i \in Boxes : ScanRecv(i)
    \/ \E i \in Boxes : ScanClosed(i)
    \/ \E i \in Boxes : ScanFetchErr(i)
    \/ \E i \in Boxes : ScanTimeout(i)
    \/ \E i \in Boxes : DrainRecv(i)
    \/ \E i \in Boxes : DrainClosed(i)
    \/ \E i \in Boxes : DrainTimeout(i)
    \/ \E i \in Boxes : DownloadEnd(i)
    \/ \E i \in Boxes : BodyIssue(i)
    \/ \E i \in Boxes : BodyRecv(i)
    \/ \E i \in Boxes : Lock(i)
    \/ \E i \in Boxes : Unlock(i)
    \/ \E i \in Boxes : BodyTimeout(i)
    \/ \E i \in Boxes : Release(i)
    \/ \E i \in Boxes : WgDone(i)

\* a step of a UidFetch goroutine
Fetcher ==
    \/ \E i \in Boxes : ScanExec(i)
    \/ \E i \in Boxes : FetchSend(i)
    \/ \E i \in Boxes : FetchEnd(i)
    \/ \E i \in Boxes : FetchFail(i)
    \/ \E i \in Boxes : BodyReply(i)
    \/ \E i \in Boxes : BodyEmpty(i)
    \/ \E i \in Boxes : LingerEnd(i)

\* one run of the program
Next == Skip \/ Dispatch \/ LoopEnd \/ Wait \/ Worker \/ Fetcher

Spec == Init /\ [][Next]_vars

(***************************************************************************)
(* SpecRuns: the program is run MaxRuns times, one after the other, on the *)
(* same backup directory and an unchanged account, with one worker; the    *)
(* first mailbox holds any of the UIDs 1..MaxUID.  run.clean records that  *)
(* no select, directory, fetch or write has failed or timed out so far in  *)
(* the cycle.                                                              *)
(***************************************************************************)
InitRuns ==
    /\ cfg \in [MaxWorkers : {1}, FoldersOnly : {{}, {BoxNames[1]}}, DryRun : BOOLEAN]
    /\ server \in {s \in [NameSet -> SUBSET (1..MaxUID)] :
                      \A n \in 2..Len(BoxNames) : s[BoxNames[n]] = {}}
    /\ Start
    /\ run = FreshRun(1, FALSE, {})
    /\ cr = CronOff
    /\ au = AuthOff

NextRuns == Next \/ Rerun

SpecRuns == InitRuns /\ [][NextRuns]_vars

\* the same with fairness: a step that stays possible is eventually taken
SpecRunsFair == SpecRuns /\ WF_vars(NextRuns)

(***************************************************************************)
(* SpecOld: the older ProcessMailbox of gmail_service.go 98-251, run like  *)
(* SpecRuns.  Its select, scan and drain are those of the current one but  *)
(* for the sleep after a failed SELECT; its download loop leaves an        *)
(* iteration with continue at every failure.                               *)
(***************************************************************************)
\* c.Select fails (104-113): the sleep is skipped after the third attempt
OldSelectFail(i) ==
    /\ wk[i].pc = "select"
    /\ selected' = NoBox
    /\ wk' = [wk EXCEPT ![i].retry = @ + 1,
                        ![i].slept = IF wk[i].retry < 2 THEN Append(@, wk[i].retry + 1)
                                     ELSE @,
                        ![i].pc = IF wk[i].retry + 1 < 3 THEN "select" ELSE "giveup"]
    /\ run' = Dirty
    /\ UNCHANGED <<engineRest, files, dirs, rb, sg, uidMsgs, fetchErr, bg, msgs,
                   linger>>

\* case err := <-fetchErr (204-240): UidFetch has returned; on an error, a
\* nil message, a nil body, a read error, a dry run or a failed write the
\* iteration ends with continue, before the counter and before the sleep
OldBodyRecv(i) ==
    /\ wk[i].pc = "await"
    /\ bg[i].st = "ret"
    /\ LET msg == IF msgs[i].buf # <<>> THEN Head(msgs[i].buf) ELSE "nil"
           path == MessagePath(BackupDir, BoxOf(i), wk[i].missing[wk[i].k])
       IN  \E written \in WriteOutcomes(path) :
               IF Stores(msg, cfg.DryRun) /\ written
               THEN /\ files' = files \cup {path}
                    /\ wk' = [wk EXCEPT ![i].pc = "lock"]
                    /\ run' = run
               ELSE /\ wk' = [wk EXCEPT ![i].pc = "download", ![i].k = @ + 1]
                    /\ run' = IF Stores(msg, cfg.DryRun) THEN Dirty ELSE run
                    /\ files' = files
    /\ msgs' = [msgs EXCEPT ![i].buf = <<>>]
    /\ UNCHANGED <<engineRest, dirs, rb, sg, uidMsgs, fetchErr, bg, linger, selected>>

\* case <-ctx.Done() (211-213): continue
OldBodyTimeout(i) ==
    /\ wk[i].pc = "await"
    /\ wk' = [wk EXCEPT ![i].pc = "download", ![i].k = @ + 1]
    /\ linger' = [linger EXCEPT ![i].body = IF bg[i].st = "start" THEN @ + 1 ELSE @]
    /\ bg' = [bg EXCEPT ![i] = NoBody]
    /\ run' = Dirty
    /\ UNCHANGED <<engineRest, files, dirs, rb, sg, uidMsgs, fetchErr, msgs, selected>>

\* a step of an older ProcessMailbox worker
OldWorker ==
    \/ \E i \in Boxes : SelectOK(i)
    \/ \E i \in Boxes : OldSelectFail(i)
    \/ \E i \in Boxes : SelectGiveUp(i)
    \/ \E i \in Boxes : MkDir(i)
    \/ \E i \in Boxes : MkDirFail(i)
    \/ \E i \in Boxes : ScanRecv(i)
    \/ \E i \in Boxes : ScanClosed(i)
    \/ \E i \in Boxes : ScanFetchErr(i)
    \/ \E i \in Boxes : ScanTimeout(i)
    \/ \E i \in Boxes : DrainRecv(i)
    \/ \E i \in Boxes : DrainClosed(i)
    \/ \E i \in Boxes : DrainTimeout(i)
    \/ \E i \in Boxes : DownloadEnd(i)
    \/ \E i \in Boxes : BodyIssue(i)
    \/ \E i \in Boxes : OldBodyRecv(i)
    \/ \E i \in Boxes : Lock(i)
    \/ \E i \in Boxes : Unlock(i)
    \/ \E i \in Boxes : OldBodyTimeout(i)
    \/ \E i \in Boxes : Release(i)
    \/ \E i \in Boxes : WgDone(i)

NextOld == Skip \/ Dispatch \/ LoopEnd \/ Wait \/ OldWorker \/ Fetcher \/ Rerun

SpecOld == InitRuns /\ [][NextOld]_vars

(***************************************************************************)
(* SpecChunk: the scan of the processMailbox of src/main.go 144-224, which *)
(* asks for the UIDs in chunks of chunkSize, each with a UidFetch called   *)
(* in the worker itself and a message channel read after it has returned.  *)
(* One worker, on the first mailbox, from its dispatch to the end of its   *)
(* scan; the download loop (226-298) is not followed.  The backup          *)
(* directory holds any of the messages.                                    *)
(***************************************************************************)
\* chunkEnd of lines 180-183
ChunkEnd(chunkStart, uidNext) ==
    IF chunkStart + ChunkSize - 1 > uidNext THEN uidNext
    ELSE chunkStart + ChunkSize - 1

RECURSIVE NoteAll(_, _, _)
\* for msg := range uidMsgs (204-210)
NoteAll(missing, box, buf) ==
    IF buf = <<>> THEN missing
    ELSE NoteAll(NoteUID(missing, box, Head(buf)), box, Tail(buf))

\* ensureDir succeeds (167-170); the chunk loop starts at UID 1 (174-179)
ChunkMkDir(i) ==
    /\ wk[i].pc = "ensureDir"
    /\ dirs' = EnsureDir(MailboxDir(BackupDir, BoxOf(i)), cfg.DryRun)
    /\ wk' = [wk EXCEPT ![i].pc = "chunk", ![i].retry = 0, ![i].slept = <<>>,
                        ![i].chunkStart = 1]
    /\ UNCHANGED <<engineRest, files, rb, sg, uidMsgs, fetchErr, bg, msgs, linger,
                   selected, run>>

\* lines 179-198: the range of the chunk is computed and c.UidFetch called
ChunkIssue(i) ==
    /\ wk[i].pc = "chunk"
    /\ wk[i].chunkStart < wk[i].uidNext
    /\ LET chunkEnd == ChunkEnd(wk[i].chunkStart, wk[i].uidNext)
       IN  /\ wk' = [wk EXCEPT ![i].pc = "chunkwait",
                               ![i].asked = Append(@, <<wk[i].chunkStart, chunkEnd>>)]
           /\ sg' = [sg EXCEPT ![i] =
                        [st |-> "run", on |-> selected,
                         todo |-> IF selected = NoBox THEN <<>>
                                  ELSE SeqOfSet(server[selected]
                                                \cap (wk[i].chunkStart..chunkEnd))]]
    /\ uidMsgs' = [uidMsgs EXCEPT ![i] = OpenChan]
    /\ fetchErr' = [fetchErr EXCEPT ![i] = <<>>]
    /\ UNCHANGED <<engineRest, files, dirs, rb, bg, msgs, linger, selected, run>>

\* UidFetch hands the next response to the message channel of the chunk,
\* which nobody reads before UidFetch has returned
ChunkSend(i) ==
    /\ wk[i].pc = "chunkwait"
    /\ sg[i].st = "run"
    /\ sg[i].todo # <<>>
    /\ Len(uidMsgs[i].buf) < ChunkCap
    /\ uidMsgs' = [uidMsgs EXCEPT ![i].buf = Append(@, Head(sg[i].todo))]
    /\ sg' = [sg EXCEPT ![i].todo = Tail(@)]
    /\ UNCHANGED <<engineRest, files, dirs, rb, wk, fetchErr, bg, msgs, linger,
                   selected, run>>

\* UidFetch has returned nil: the channel is read to its end (204-210) and
\* the loop goes to the next chunk
ChunkRead(i) ==
    /\ wk[i].pc = "chunkwait"
    /\ sg[i].st = "ret"
    /\ fetchErr[i] = <<"nil">>
    /\ wk' = [wk EXCEPT ![i].pc = "chunk",
                        ![i].seen = @ \o uidMsgs[i].buf,
                        ![i].missing = NoteAll(@, BoxOf(i), uidMsgs[i].buf),
                        ![i].chunkStart = @ + ChunkSize]
    /\ uidMsgs' = [uidMsgs EXCEPT ![i] = OpenChan]
    /\ fetchErr' = [fetchErr EXCEPT ![i] = <<>>]
    /\ sg' = [sg EXCEPT ![i] = NoScan]
    /\ UNCHANGED <<engineRest, files, dirs, rb, bg, msgs, linger, selected, run>>

\* UidFetch has returned an error: continue with the next chunk (198-201)
ChunkFailed(i) ==
    /\ wk[i].pc = "chunkwait"
    /\ sg[i].st = "ret"
    /\ fetchErr[i] = <<"err">>
    /\ wk' = [wk EXCEPT ![i].pc = "chunk", ![i].chunkStart = @ + ChunkSize]
    /\ uidMsgs' = [uidMsgs EXCEPT ![i] = OpenChan]
    /\ fetchErr' = [fetchErr EXCEPT ![i] = <<>>]
    /\ sg' = [sg EXCEPT ![i] = NoScan]
    /\ UNCHANGED <<engineRest, files, dirs, rb, bg, msgs, linger, selected, run>>

\* chunkStart < UidNext fails: the scan is over (219-224)
ChunkScanEnd(i) ==
    /\ wk[i].pc = "chunk"
    /\ wk[i].chunkStart >= wk[i].uidNext
    /\ wk' = [wk EXCEPT ![i].pc = "scanned"]
    /\ UNCHANGED <<engineRest, files, dirs, rb, sg, uidMsgs, fetchErr, bg, msgs,
                   linger, selected, run>>

\* the message files a backup directory may hold for the first mailbox
MessageFiles == SUBSET {MessagePath(BackupDir, BoxNames[1], u) : u \in 1..MaxUID}

InitChunk ==
    /\ cfg \in [MaxWorkers : {1}, FoldersOnly : {{}, {BoxNames[1]}}, DryRun : {FALSE}]
    /\ server \in {s \in [NameSet -> SUBSET (1..MaxUID)] :
                      \A n \in 2..Len(BoxNames) : s[BoxNames[n]] = {}}
    /\ mailboxes = BoxNames
    /\ files \in MessageFiles
    /\ dirs = IF files = {} THEN {} ELSE {MailboxDir(BackupDir, BoxNames[1])}
    /\ rb = StartOfRun
    /\ wk = [i \in 1..Len(BoxNames) |-> IdleWorker]
    /\ sg = [i \in 1..Len(BoxNames) |-> NoScan]
    /\ uidMsgs = [i \in 1..Len(BoxNames) |-> OpenChan]
    /\ fetchErr = [i \in 1..Len(BoxNames) |-> <<>>]
    /\ bg = [i \in 1..Len(BoxNames) |-> NoBody]
    /\ msgs = [i \in 1..Len(BoxNames) |-> OpenChan]
    /\ linger = [i \in 1..Len(BoxNames) |-> NoLinger]
    /\ selected = NoBox
    /\ flags = NoFlags
    /\ run = FreshRun(1, FALSE, files)
    /\ cr = CronOff
    /\ au = AuthOff

NextChunk ==
    \/ Skip
    \/ Dispatch
    \/ LoopEnd
    \/ \E i \in Boxes : SelectOK(i)
    \/ \E i \in Boxes : OldSelectFail(i)
    \/ \E i \in Boxes : SelectGiveUp(i)
    \/ \E i \in Boxes : ChunkMkDir(i)
    \/ \E i \in Boxes : MkDirFail(i)
    \/ \E i \in Boxes : ChunkIssue(i)
    \/ \E i \in Boxes : ChunkSend(i)
    \/ \E i \in Boxes : FetchEnd(i)
    \/ \E i \in Boxes : FetchFail(i)
    \/ \E i \in Boxes : ChunkRead(i)
    \/ \E i \in Boxes : ChunkFailed(i)
    \/ \E i \in Boxes : ChunkScanEnd(i)
    \/ \E i \in Boxes : Release(i)
    \/ \E i \in Boxes : WgDone(i)

SpecChunk == InitChunk /\ [][NextChunk]_vars

(***************************************************************************)
(* SpecPool: one run with the MaxWorkers that LoadConfig reads from the    *)
(* environment (config.go 41-48, 68), from the making of the semaphore     *)
(* (main.go 44) on.  A value of the environment is a sequence of           *)
(* characters.                                                             *)
(***************************************************************************)
Digits == <<"0", "1", "2", "3", "4", "5", "6", "7", "8", "9">>

IsDigit(c) == \E d \in 1..Len(Digits) : Digits[d] = c

DigitValue(c) == (CHOOSE d \in 1..Len(Digits) : Digits[d] = c) - 1

RECURSIVE Magnitude(_, _)
\* the value of a sequence of digits read from the left, acc being the value
\* of the digits read so far
Magnitude(s, acc) ==
    IF s = <<>> THEN acc ELSE Magnitude(Tail(s), 10 * acc + DigitValue(Head(s)))

\* strconv.Atoi returns a nil error: an optional sign and at least one digit
AtoiOK(v) ==
    LET digits == IF v # <<>> /\ Head(v) \in {"-", "+"} THEN Tail(v) ELSE v
    IN  digits # <<>> /\ \A n \in 1..Len(digits) : IsDigit(digits[n])

\* the value strconv.Atoi returns with a nil error
Atoi(v) ==
    IF Head(v) = "-" THEN 0 - Magnitude(Tail(v), 0)
    ELSE IF Head(v) = "+" THEN Magnitude(Tail(v), 0)
    ELSE Magnitude(v, 0)

\* getenvInt (config.go 41-48) on the value v of the variable
getenvInt(v, def) == IF v # <<>> /\ AtoiOK(v) THEN Atoi(v) ELSE def

\* the values of MAX_WORKERS that are followed: unset, not a number, -1, 0, 1, 2
MaxWorkersEnv == {<<>>, <<"x">>, <<"-", "1">>, <<"0">>, <<"1">>, <<"2">>}

InitPool ==
    /\ cfg \in [MaxWorkers : {getenvInt(v, 1) : v \in MaxWorkersEnv},
                FoldersOnly : {{}, {BoxNames[1]}}, DryRun : {FALSE}]
    /\ server \in {s \in [NameSet -> SUBSET (1..MaxUID)] :
                      \A n \in 2..Len(BoxNames) : s[BoxNames[n]] = {}}
    /\ mailboxes = BoxNames
    /\ files = {}
    /\ dirs = {}
    /\ rb = [StartOfRun EXCEPT !.pc = "make"]
    /\ wk = [i \in 1..Len(BoxNames) |-> IdleWorker]
    /\ sg = [i \in 1..Len(BoxNames) |-> NoScan]
    /\ uidMsgs = [i \in 1..Len(BoxNames) |-> OpenChan]
    /\ fetchErr = [i \in 1..Len(BoxNames) |-> <<>>]
    /\ bg = [i \in 1..Len(BoxNames) |-> NoBody]
    /\ msgs = [i \in 1..Len(BoxNames) |-> OpenChan]
    /\ linger = [i \in 1..Len(BoxNames) |-> NoLinger]
    /\ selected = NoBox
    /\ flags = NoFlags
    /\ run = FreshRun(1, FALSE, {})
    /\ cr = CronOff
    /\ au = AuthOff

\* sem := make(chan struct{}, cfg.MaxWorkers) (main.go 44): make panics on a
\* negative size, and a size of 0 makes a channel without buffer
MakeSem ==
    /\ rb.pc = "make"
    /\ rb' = [rb EXCEPT !.pc = IF cfg.MaxWorkers < 0 THEN "panic" ELSE "loop"]
    /\ UNCHANGED <<engineRest, files, dirs, wk, sg, uidMsgs, fetchErr, bg, msgs,
                   linger, selected, run>>

NextPool == MakeSem \/ Next

SpecPool == InitPool /\ [][NextPool]_vars

(***************************************************************************)
(* SpecWrap: the uint32 arithmetic of the scans on the UidNext of the      *)
(* SELECT response, in unsigned integers of UidBits bits: the single range *)
(* of gmail_service.go 387-388 and the chunk loops of src/main.go 175-183  *)
(* ("main") and part_002 267-275 ("part").  A worker whose SELECT has      *)
(* returned messages and any UidNext, 0 included (the server need not      *)
(* send UIDNEXT), computes the ranges it asks; the fetches are not         *)
(* followed.                                                               *)
(***************************************************************************)
UidModulus == 2 ^ UidBits

\* a + b and a - b in uint32
AddU(a, b) == (a + b) % UidModulus

SubU(a, b) == (a - b + UidModulus) % UidModulus

\* chunkEnd of src/main.go 180-183
ChunkEndMain(chunkStart, uidNext) ==
    LET chunkEnd == SubU(AddU(chunkStart, WrapChunkSize), 1)
    IN  IF chunkEnd > uidNext THEN uidNext ELSE chunkEnd

\* chunkEnd of part_002 272-275
ChunkEndPart(chunkStart, uidNext) ==
    LET chunkEnd == SubU(AddU(chunkStart, WrapChunkSize), 1)
    IN  IF chunkEnd >= uidNext THEN SubU(uidNext, 1) ELSE chunkEnd

\* the chunk loop is followed for so many iterations: one more than a loop
\* over all UIDs needs
MaxChunks == (UidModulus \div WrapChunkSize) + 2

\* uidSeq.AddRange(1, mboxStatus.UidNext-1) (gmail_service.go 387-388)
WrapSingle(i) ==
    /\ wk[i].pc = "ensureDir"
    /\ wk' = [wk EXCEPT ![i].pc = "ranged", ![i].variant = "single",
                        ![i].asked = << <<1, SubU(wk[i].uidNext, 1)>> >>]
    /\ UNCHANGED <<engineRest, files, dirs, rb, sg, uidMsgs, fetchErr, bg, msgs,
                   linger, selected, run>>

\* for chunkStart := uint32(1); ... (src/main.go 179, part_002 271)
WrapLoop(i) ==
    /\ wk[i].pc = "ensureDir"
    /\ \E variant \in {"main", "part"} :
          wk' = [wk EXCEPT ![i].pc = "chunk", ![i].variant = variant,
                           ![i].chunkStart = 1]
    /\ UNCHANGED <<engineRest, files, dirs, rb, sg, uidMsgs, fetchErr, bg, msgs,
                   linger, selected, run>>

\* one iteration: chunkEnd, uidSeq.AddRange(chunkStart, chunkEnd), and
\* chunkStart += chunkSize
WrapChunk(i) ==
    /\ wk[i].pc = "chunk"
    /\ wk[i].chunkStart < wk[i].uidNext
    /\ wk[i].k <= MaxChunks
    /\ LET chunkEnd == IF wk[i].variant = "main"
                       THEN ChunkEndMain(wk[i].chunkStart, wk[i].uidNext)
                       ELSE ChunkEndPart(wk[i].chunkStart, wk[i].uidNext)
       IN  wk' = [wk EXCEPT ![i].asked = << <<wk[i].chunkStart, chunkEnd>> >>,
                            ![i].chunkStart = AddU(@, WrapChunkSize),
                            ![i].k = @ + 1]
    /\ UNCHANGED <<engineRest, files, dirs, rb, sg, uidMsgs, fetchErr, bg, msgs,
                   linger, selected, run>>

\* chunkStart < UidNext fails: the loop ends
WrapLoopEnd(i) ==
    /\ wk[i].pc = "chunk"
    /\ wk[i].chunkStart >= wk[i].uidNext
    /\ wk' = [wk EXCEPT ![i].pc = "ranged"]
    /\ UNCHANGED <<engineRest, files, dirs, rb, sg, uidMsgs, fetchErr, bg, msgs,
                   linger, selected, run>>

InitWrap ==
    /\ cfg = [MaxWorkers |-> 1, FoldersOnly |-> {}, DryRun |-> FALSE]
    /\ server = [b \in NameSet |-> {}]
    /\ mailboxes = BoxNames
    /\ files = {}
    /\ dirs = {}
    /\ rb = [StartOfRun EXCEPT !.i = 2, !.sem = 1, !.wg = 1]
    /\ \E uidNext \in 0..(UidModulus - 1) :
          wk = [i \in 1..Len(BoxNames) |->
                   IF i = 1 THEN [IdleWorker EXCEPT !.pc = "ensureDir", !.messages = 1,
                                                    !.uidNext = uidNext]
                   ELSE IdleWorker]
    /\ sg = [i \in 1..Len(BoxNames) |-> NoScan]
    /\ uidMsgs = [i \in 1..Len(BoxNames) |-> OpenChan]
    /\ fetchErr = [i \in 1..Len(BoxNames) |-> <<>>]
    /\ bg = [i \in 1..Len(BoxNames) |-> NoBody]
    /\ msgs = [i \in 1..Len(BoxNames) |-> OpenChan]
    /\ linger = [i \in 1..Len(BoxNames) |-> NoLinger]
    /\ selected = BoxNames[1]
    /\ flags = NoFlags
    /\ run = FreshRun(1, FALSE, {})
    /\ cr = CronOff
    /\ au = AuthOff

NextWrap ==
    \/ \E i \in Boxes : WrapSingle(i)
    \/ \E i \in Boxes : WrapLoop(i)
    \/ \E i \in Boxes : WrapChunk(i)
    \/ \E i \in Boxes : WrapLoopEnd(i)

SpecWrap == InitWrap /\ [][NextWrap]_vars

(***************************************************************************)
(* SpecFair: one run with two workers on an account whose first two        *)
(* mailboxes hold the messages, followed to its end.  The Go scheduler     *)
(* runs every goroutine that can take a step, and every wait of the        *)
(* program is a channel receive, a mutex or a deadline, so a step that     *)
(* stays possible is eventually taken.                                     *)
(***************************************************************************)
InitFair ==
    /\ cfg \in [MaxWorkers : {MaxWorkersBound},
                FoldersOnly : {{}, {BoxNames[1], BoxNames[2]}},
                DryRun : {FALSE}]
    /\ server \in {s \in Accounts : s[BoxNames[3]] = {}}
    /\ Start
    /\ run = FreshRun(1, FALSE, {})
    /\ cr = CronOff
    /\ au = AuthOff

SpecFair == InitFair /\ [][Next]_vars /\ WF_vars(Next)

(***************************************************************************)
(* SpecQuiet: the same run, with fairness for the goroutines of the        *)
(* program only.  Nothing obliges the server to answer a UID FETCH: a      *)
(* behaviour in which an answer that is possible never comes is allowed.   *)
(***************************************************************************)
\* the steps that need nothing from the server: the dispatcher, the workers
\* and the start of a scan goroutine
Program ==
    Skip \/ Dispatch \/ LoopEnd \/ Wait \/ Worker \/ (\E i \in Boxes : ScanExec(i))

SpecQuiet == InitFair /\ [][Next]_vars /\ WF_vars(Program)

(***************************************************************************)
(* SpecCron: main (cmd/archive-gmail/main.go 71-139).  Without a schedule  *)
(* runBackup runs once in main.  With one, the cron library starts the     *)
(* registered function in a goroutine of its own at every tick, main       *)
(* starts the initial backup, and both test and set the running flag.      *)
(* runBackup is followed from its call to its return (or its logrus.Fatal, *)
(* which ends the process).                                                *)
(***************************************************************************)
Ticks == 1..MaxTicks

\* the goroutines that call runBackup: 0 is started by main, t by tick t
Backups == 0..MaxTicks

Schedules == {"", "invalid", "valid"}

\* main at line 72
CronStart(schedule) ==
    [on |-> TRUE, CronSchedule |-> schedule, running |-> 0, main |-> "start",
     tick |-> [t \in Ticks |-> "idle"], backup |-> [b \in Backups |-> "none"],
     exited |-> FALSE]

\* c.Start() at line 121 has been called
CronStarted == cr.main \in {"load", "store", "block"}

\* lines 76-121: run once, or parse the schedule, add the function, start cron
MainStart ==
    /\ ~cr.exited
    /\ cr.main = "start"
    /\ cr' = IF cr.CronSchedule = ""
             THEN [cr EXCEPT !.main = "once", !.backup[0] = "run"]
             ELSE IF cr.CronSchedule = "invalid"
                  THEN [cr EXCEPT !.main = "fatal", !.exited = TRUE]
                  ELSE [cr EXCEPT !.main = "load"]
    /\ UNCHANGED <<engineVars, au>>

\* line 124: atomic.LoadInt32(&running) == 0
MainLoad ==
    /\ ~cr.exited
    /\ cr.main = "load"
    /\ cr' = [cr EXCEPT !.main = IF cr.running = 0 THEN "store" ELSE "block"]
    /\ UNCHANGED <<engineVars, au>>

\* lines 125-134: atomic.StoreInt32(&running, 1); go func() {...}(); select {}
MainStore ==
    /\ ~cr.exited
    /\ cr.main = "store"
    /\ cr' = [cr EXCEPT !.running = 1, !.backup[0] = "run", !.main = "block"]
    /\ UNCHANGED <<engineVars, au>>

\* the schedule comes due: cron starts the function of line 101 in a goroutine
TickFire(t) ==
    /\ ~cr.exited
    /\ CronStarted
    /\ cr.tick[t] = "idle"
    /\ t > 1 => cr.tick[t - 1] # "idle"
    /\ cr' = [cr EXCEPT !.tick[t] = "load"]
    /\ UNCHANGED <<engineVars, au>>

\* line 102: atomic.LoadInt32(&running) == 0, else the tick is skipped (115)
TickLoad(t) ==
    /\ ~cr.exited
    /\ cr.tick[t] = "load"
    /\ cr' = [cr EXCEPT !.tick[t] = IF cr.running = 0 THEN "store" ELSE "skipped"]
    /\ UNCHANGED <<engineVars, au>>

\* lines 103-113: atomic.StoreInt32(&running, 1); go func(localID) {...}(id)
TickStore(t) ==
    /\ ~cr.exited
    /\ cr.tick[t] = "store"
    /\ cr' = [cr EXCEPT !.running = 1, !.backup[t] = "run", !.tick[t] = "spawned"]
    /\ UNCHANGED <<engineVars, au>>

\* runBackup returns (lines 78, 107, 129); run once, main returns after it
BackupReturn(b) ==
    /\ ~cr.exited
    /\ cr.backup[b] = "run"
    /\ cr' = IF cr.main = "once"
             THEN [cr EXCEPT !.backup[b] = "done", !.main = "returned", !.exited = TRUE]
             ELSE [cr EXCEPT !.backup[b] = "back"]
    /\ UNCHANGED <<engineVars, au>>

\* the deferred atomic.StoreInt32(&running, 0) of lines 105 and 127
BackupReset(b) ==
    /\ ~cr.exited
    /\ cr.backup[b] = "back"
    /\ cr' = [cr EXCEPT !.backup[b] = "done", !.running = 0]
    /\ UNCHANGED <<engineVars, au>>

\* runBackup calls logrus.Fatal (lines 23, 26, 31, 38): the process exits
BackupFatal(b) ==
    /\ ~cr.exited
    /\ cr.backup[b] = "run"
    /\ cr' = [cr EXCEPT !.backup[b] = "fatal", !.exited = TRUE]
    /\ UNCHANGED <<engineVars, au>>

\* the engine at rest, for the specifications that do not follow it
EngineIdle ==
    /\ cfg = [MaxWorkers |-> 1, FoldersOnly |-> {}, DryRun |-> FALSE]
    /\ server = [b \in NameSet |-> {}]
    /\ Start
    /\ run = [n |-> 1, clean |-> FALSE, prevClean |-> FALSE, had |-> {}]

InitCron ==
    /\ EngineIdle
    /\ au = AuthOff
    /\ \E schedule \in Schedules : cr = CronStart(schedule)

NextCron ==
    \/ MainStart
    \/ MainLoad
    \/ MainStore
    \/ \E t \in Ticks : TickFire(t)
    \/ \E t \in Ticks : TickLoad(t)
    \/ \E t \in Ticks : TickStore(t)
    \/ \E b \in Backups : BackupReturn(b)
    \/ \E b \in Backups : BackupReset(b)
    \/ \E b \in Backups : BackupFatal(b)

SpecCron == InitCron /\ [][NextCron]_vars

(***************************************************************************)
(* SpecAuth: the start of runBackup (cmd/archive-gmail/main.go 21-33):     *)
(* the check of the configuration, Connect (gmail_service.go 331-364) and  *)
(* authenticateOAuth2 (458-546) with its token file, the interactive       *)
(* prompt, the oauth2 token source and the XOAUTH2 client (549-575), then  *)
(* ListMailboxes (297-320).                                                *)
(* A token is a record; AccessToken 0 stands for the empty string, Expiry  *)
(* is "zero" (never expires), "past" or "future" relative to the start.    *)
(***************************************************************************)
NoToken == [st |-> "nil", AccessToken |-> 0, RefreshToken |-> FALSE, Expiry |-> "zero"]

Tokens == [st : {"token"}, AccessToken : {0, 1}, RefreshToken : BOOLEAN,
           Expiry : {"zero", "past", "future"}]

\* the token file: absent, not JSON, or a token
TokenFiles ==
    {[NoToken EXCEPT !.st = "absent"], [NoToken EXCEPT !.st = "garbage"]} \cup Tokens

AuthConfigs == [Email : {"", "e"}, Password : {"", "p"},
                ClientID : {"", "id"}, ClientSecret : {"", "secret"}]

\* runBackup at line 21
AuthStart(c, file) ==
    [on |-> TRUE, pc |-> "check", cfg |-> c, file |-> file, file0 |-> file,
     token |-> NoToken, conn |-> "none", err |-> "nil", dialed |-> FALSE,
     authed |-> FALSE, prompts |-> 0, refreshes |-> 0, logins |-> 0,
     sent |-> <<>>, minted |-> 0, stepDone |-> FALSE, fatal |-> "none",
     got |-> 0, boxes |-> <<>>, listErr |-> "none", nexts |-> <<>>]

\* line 21 (and Connect, line 351)
UseOAuth2(c) == c.ClientID # "" /\ c.ClientSecret # ""

\* a configuration check that accepts a run without any credential
CredentialsNeverMissing(c) == FALSE

\* the condition of line 25
CredentialsMissing(c) == ~UseOAuth2(c) /\ c.Password = ""

\* oauth2.Token.Valid as used at lines 481 and 488
Valid(t) == t.st = "token" /\ t.AccessToken # 0 /\ t.Expiry # "past"

\* a token file that can never be read
LoadsNever(file) == FALSE

\* loadTokenFromFile (655-662) returns a nil error
Loads(file) == file.st = "token"

\* the token the provider issues next: a new access token, an hour to live
Minted(a) == [st |-> "token", AccessToken |-> a.minted + 2, RefreshToken |-> TRUE,
              Expiry |-> "future"]

\* Connect returns an error (its deferred function reads the err of line 339,
\* which the err of lines 353 and 359 shadows) and runBackup ends at line 31
ConnectFailed(a) ==
    [a EXCEPT !.pc = "fatal", !.fatal = "IMAP connect failed",
              !.conn = IF a.err # "nil" /\ a.conn = "open" THEN "closed" ELSE a.conn]

\* lines 21-27
Validate ==
    /\ au.pc = "check"
    /\ au' = IF au.cfg.Email = ""
             THEN [au EXCEPT !.pc = "fatal", !.fatal = "GMAIL_EMAIL is required"]
             ELSE IF CredentialsMissing(au.cfg)
                  THEN [au EXCEPT !.pc = "fatal", !.fatal = "credentials required"]
                  ELSE [au EXCEPT !.pc = "dial"]
    /\ UNCHANGED <<engineVars, cr>>

\* Connect, lines 339-351 and 357: client.DialTLS, then the choice of the variant
Dial ==
    /\ au.pc = "dial"
    /\ \E ok \in BOOLEAN :
          au' = IF ok
                THEN [au EXCEPT !.dialed = TRUE, !.conn = "open",
                                !.pc = IF UseOAuth2(au.cfg) THEN "oauth" ELSE "login"]
                ELSE [au EXCEPT !.dialed = TRUE, !.pc = "fatal",
                                !.fatal = "IMAP connect failed"]
    /\ UNCHANGED <<engineVars, cr>>

\* Connect, lines 358-363: c.Login(cfg.Email, cfg.Password)
Login ==
    /\ au.pc = "login"
    /\ \E ok \in BOOLEAN :
          au' = IF ok
                THEN [au EXCEPT !.logins = @ + 1, !.authed = TRUE, !.pc = "connected"]
                ELSE ConnectFailed([au EXCEPT !.logins = @ + 1])
    /\ UNCHANGED <<engineVars, cr>>

\* authenticateOAuth2, lines 459-467: os.MkdirAll of the token directory
TokenDir ==
    /\ au.pc = "oauth"
    /\ \E ok \in BOOLEAN :
          au' = IF ok THEN [au EXCEPT !.pc = "load"] ELSE ConnectFailed(au)
    /\ UNCHANGED <<engineVars, cr>>

\* lines 478-488: the cached token is taken only if it loads and is valid
LoadToken ==
    /\ au.pc = "load"
    /\ LET token == IF Loads(au.file) /\ Valid(au.file) THEN au.file ELSE NoToken
       IN  au' = [au EXCEPT !.token = token,
                            !.pc = IF token.st = "nil" \/ ~Valid(token)
                                   THEN "prompt" ELSE "sasl"]
    /\ UNCHANGED <<engineVars, cr>>

\* an interactive login that asks again when the code cannot be unescaped
PromptAgain ==
    /\ au.pc = "prompt"
    /\ au.prompts < 2
    /\ \E unescapes \in BOOLEAN :
          au' = IF unescapes
                THEN [au EXCEPT !.prompts = @ + 1, !.pc = "exchange"]
                ELSE [au EXCEPT !.prompts = @ + 1]
    /\ UNCHANGED <<engineVars, cr>>

\* lines 489-501: the URL is printed, the code is read and unescaped
Prompt ==
    /\ au.pc = "prompt"
    /\ \E unescapes \in BOOLEAN :
          au' = IF unescapes
                THEN [au EXCEPT !.prompts = @ + 1, !.pc = "exchange"]
                ELSE ConnectFailed([au EXCEPT !.prompts = @ + 1])
    /\ UNCHANGED <<engineVars, cr>>

\* lines 503-514: conf.Exchange, then saveTokenToFile (a failure is a warning)
Exchange ==
    /\ au.pc = "exchange"
    /\ \E ok \in BOOLEAN, saved \in BOOLEAN :
          au' = IF ok
                THEN [au EXCEPT !.token = Minted(au), !.minted = @ + 1,
                                !.file = IF saved THEN Minted(au) ELSE @,
                                !.pc = "sasl"]
                ELSE ConnectFailed(au)
    /\ UNCHANGED <<engineVars, cr>>

\* c.Authenticate calls Start (555-563), which calls getAccessToken (521-531):
\* the token source returns the token while it is valid, the token is saved
\* again and its access token is sent
SaslStart ==
    /\ au.pc = "sasl"
    /\ Valid(au.token)
    /\ \E saved \in BOOLEAN :
          au' = [au EXCEPT !.file = IF saved THEN au.token ELSE @,
                           !.sent = Append(@, au.token.AccessToken),
                           !.pc = "challenge"]
    /\ UNCHANGED <<engineVars, cr>>

\* the same when the token has expired since it was loaded: the token source
\* refreshes it, the new token is saved and sent
SaslRefresh ==
    /\ au.pc = "sasl"
    /\ au.token.Expiry = "future"
    /\ au.token.RefreshToken
    /\ \E saved \in BOOLEAN :
          au' = [au EXCEPT !.token = Minted(au), !.minted = @ + 1,
                           !.refreshes = @ + 1,
                           !.file = IF saved THEN Minted(au) ELSE @,
                           !.sent = Append(@, Minted(au).AccessToken),
                           !.pc = "challenge"]
    /\ UNCHANGED <<engineVars, cr>>

\* a failed refresh that falls back to the interactive login
SaslRefreshFailPrompts ==
    /\ au.pc = "sasl"
    /\ au.token.Expiry = "future"
    /\ au' = [au EXCEPT !.token.Expiry = "past", !.pc = "prompt",
                        !.refreshes = IF au.token.RefreshToken THEN @ + 1 ELSE @]
    /\ UNCHANGED <<engineVars, cr>>

\* the same when the refresh fails or there is no refresh token: Start returns
\* the error of line 524 and Authenticate fails (541-543)
SaslRefreshFail ==
    /\ au.pc = "sasl"
    /\ au.token.Expiry = "future"
    /\ au' = ConnectFailed([au EXCEPT !.token.Expiry = "past",
                                     !.refreshes = IF au.token.RefreshToken
                                                   THEN @ + 1 ELSE @])
    /\ UNCHANGED <<engineVars, cr>>

\* the server accepts the payload: Authenticate returns nil (541-546)
SaslAccept ==
    /\ au.pc = "challenge"
    /\ au' = [au EXCEPT !.authed = TRUE, !.pc = "connected"]
    /\ UNCHANGED <<engineVars, cr>>

\* a Next that forgets the round trip once it has answered end-of-exchange
SaslNextForgets(a) ==
    IF a.stepDone
    THEN [a EXCEPT !.stepDone = FALSE, !.nexts = Append(@, "EOF")]
    ELSE [a EXCEPT !.stepDone = TRUE, !.nexts = Append(@, "empty")]

\* SASLOAuth2Client.Next (565-571): io.EOF once stepDone, else stepDone is
\* set and the response is empty, without error; nexts records what the calls
\* returned
SaslNext(a) ==
    IF a.stepDone
    THEN [a EXCEPT !.nexts = Append(@, "EOF")]
    ELSE [a EXCEPT !.stepDone = TRUE, !.nexts = Append(@, "empty")]

\* SASLOAuth2Client.Completed (573-575)
Completed(a) == a.stepDone

\* the server answers with a challenge: Next answers it; after its empty
\* response the exchange goes on, after its io.EOF Authenticate fails (541-543)
SaslChallenge ==
    /\ au.pc = "challenge"
    /\ LET a == SaslNext(au)
       IN  au' = IF a.nexts[Len(a.nexts)] = "EOF" THEN ConnectFailed(a) ELSE a
    /\ UNCHANGED <<engineVars, cr>>

\* the server answers with a challenge: Next (565-571) sets stepDone and sends
\* an empty response, the server refuses, Authenticate fails (541-543)
SaslReject ==
    /\ au.pc = "challenge"
    /\ ~Completed(au)
    /\ au' = ConnectFailed(SaslNext(au))
    /\ UNCHANGED <<engineVars, cr>>

\* what the server answers to LIST "" "*": names and their attributes
ListItems ==
    << [Name |-> "INBOX", NoSelect |-> FALSE],
       [Name |-> "[Gmail]", NoSelect |-> TRUE],
       [Name |-> "[Gmail]/Sent", NoSelect |-> FALSE] >>

\* a listing that keeps the names that cannot be selected
KeepsAll(m) == TRUE

\* ListMailboxes, lines 306-316: the name is kept unless \Noselect is set
Keeps(m) == ~m.NoSelect

\* runBackup, line 36: ListMailboxes starts c.List in a goroutine (298-303)
ListStart ==
    /\ au.pc = "connected"
    /\ au' = [au EXCEPT !.pc = "list"]
    /\ UNCHANGED <<engineVars, cr>>

\* for m := range ch (305-317): one more mailbox arrives
ListRecv ==
    /\ au.pc = "list"
    /\ au.got < Len(ListItems)
    /\ au' = [au EXCEPT !.got = @ + 1,
                        !.boxes = IF Keeps(ListItems[au.got + 1])
                                  THEN Append(@, ListItems[au.got + 1].Name) ELSE @]
    /\ UNCHANGED <<engineVars, cr>>

\* c.List ends after the last mailbox: ch is closed, return boxes, <-done (319)
ListDone ==
    /\ au.pc = "list"
    /\ au.got = Len(ListItems)
    /\ au' = [au EXCEPT !.pc = "listed", !.listErr = "nil"]
    /\ UNCHANGED <<engineVars, cr>>

\* c.List fails: ch is closed, return boxes, <-done (319) with the error
ListFail ==
    /\ au.pc = "list"
    /\ au' = [au EXCEPT !.pc = "listfail", !.listErr = "err"]
    /\ UNCHANGED <<engineVars, cr>>

\* a runBackup that goes on with the names it has when the listing fails
ListFailIgnored ==
    /\ au.pc = "listfail"
    /\ au' = [au EXCEPT !.pc = "listed"]
    /\ UNCHANGED <<engineVars, cr>>

\* runBackup, lines 37-39: logrus.Fatalf("Failed listing mailboxes")
ListFatal ==
    /\ au.pc = "listfail"
    /\ au' = [au EXCEPT !.pc = "fatal", !.fatal = "Failed listing mailboxes"]
    /\ UNCHANGED <<engineVars, cr>>

InitAuth ==
    /\ EngineIdle
    /\ cr = CronOff
    /\ \E c \in AuthConfigs, file \in TokenFiles : au = AuthStart(c, file)

NextAuth ==
    \/ Validate
    \/ Dial
    \/ Login
    \/ TokenDir
    \/ LoadToken
    \/ Prompt
    \/ Exchange
    \/ SaslStart
    \/ SaslRefresh
    \/ SaslRefreshFail
    \/ SaslAccept
    \/ SaslChallenge
    \/ SaslReject
    \/ ListStart
    \/ ListRecv
    \/ ListDone
    \/ ListFail
    \/ ListFatal

SpecAuth == InitAuth /\ [][NextAuth]_vars

(***************************************************************************)
(* SpecWhole: runBackup from its first line to its last: the start of      *)
(* SpecAuth, then the dispatch loop and one worker at a time on an account *)
(* whose first mailbox holds at most one message.  The engine works on the *)
(* names of BoxNames whatever the listing returned.                        *)
(***************************************************************************)
\* runBackup, lines 40-47: the counter, the mutex, the semaphore are made
RunStart ==
    /\ au.pc = "listed"
    /\ au' = [au EXCEPT !.pc = "running"]
    /\ UNCHANGED <<engineVars, cr>>

InitWhole ==
    /\ cfg = [MaxWorkers |-> 1, FoldersOnly |-> {}, DryRun |-> FALSE]
    /\ server \in {s \in [NameSet -> {{}, {1}}] :
                      \A n \in 2..Len(BoxNames) : s[BoxNames[n]] = {}}
    /\ Start
    /\ run = FreshRun(1, FALSE, {})
    /\ cr = CronOff
    /\ \E c \in AuthConfigs, file \in TokenFiles : au = AuthStart(c, file)

\* the dispatch loop is reached at line 49 only
NextWhole == NextAuth \/ RunStart \/ (au.pc = "running" /\ Next)

SpecWhole == InitWhole /\ [][NextWhole]_vars

\* the same with fairness: a step that stays possible is eventually taken
SpecWholeFair == SpecWhole /\ WF_vars(NextWhole)

(***************************************************************************)
(* Properties of runBackup's worker pool (checked on Spec).                *)
(***************************************************************************)

\* C1: never more than cfg.MaxWorkers ProcessMailbox workers hold a slot of the
\* semaphore; every worker that was started and has not yet given its slot back
\* accounts for exactly one token (a worker runs only with its token placed,
\* and the token goes only after ProcessMailbox has returned).
C1_SlotBound ==
    LET holders == {i \in Boxes : wk[i].pc \notin {"idle", "released", "exited"}}
    IN  /\ Cardinality(holders) <= cfg.MaxWorkers
        /\ Cardinality(holders) = rb.sem
        /\ \A i \in Boxes : wk[i].pc \in {"released", "exited"} => i < rb.i

\* C1 witness: the pool is full with two workers inside ProcessMailbox and the
\* dispatcher waits at the semaphore with a further mailbox to hand out.
C1_PoolFull ==
    /\ cfg.MaxWorkers = 2
    /\ rb.sem = 2
    /\ rb.pc = "loop"
    /\ rb.i = 3
    /\ Allowed(mailboxes[3])
    /\ wk[1].pc = "scan"
    /\ wk[2].pc = "await"

\* C5: every UID FETCH of a worker executes while that worker's own mailbox is
\* the selected one of the shared connection.
C5_FetchOnOwnMailbox ==
    \A i \in Boxes :
        /\ sg[i].st \in {"run", "ret"} => sg[i].on = BoxOf(i)
        /\ bg[i].st = "ret" => bg[i].on = BoxOf(i)

\* C6: with a non-empty FoldersOnly only the listed mailboxes are processed: for
\* a mailbox that is not listed no worker is ever started, it is never the
\* selected mailbox, and every directory made is the directory of a processed
\* mailbox; the slots in use are those of listed mailboxes.  With an empty
\* FoldersOnly every mailbox is handed to a worker.
C6_OnlyListed ==
    LET listed(i) == cfg.FoldersOnly = {} \/ BoxOf(i) \in cfg.FoldersOnly
    IN  /\ \A i \in Boxes :
              ~listed(i) => /\ wk[i] = IdleWorker
                            /\ sg[i] = NoScan /\ bg[i] = NoBody
                            /\ selected # BoxOf(i)
        /\ \A i \in Boxes : (listed(i) /\ i < rb.i) => wk[i].pc # "idle"
        /\ \A d \in dirs :
              \E i \in Boxes : listed(i) /\ i < rb.i /\ d = MailboxDir(BackupDir, BoxOf(i))
        /\ rb.sem <= Cardinality({i \in Boxes : listed(i) /\ i < rb.i})

\* C6 witness: the run is over, the one listed mailbox was selected, scanned
\* and given a directory, and the two others were never touched.
C6_ListedOnlyDone ==
    /\ cfg.FoldersOnly = {mailboxes[2]}
    /\ rb.pc = "done"
    /\ wk[2].pc = "exited"
    /\ wk[1].pc = "idle" /\ wk[3].pc = "idle"
    /\ dirs = {MailboxDir(BackupDir, mailboxes[2])}
    /\ files # {}

C10_ScanOverBeforeDownload ==
    \A i \in Boxes :
        wk[i].pc \in {"download", "await", "lock", "unlock"} => linger[i].scan = 0

(***************************************************************************)
(* Properties of repeated cycles (checked on SpecRuns).                    *)
(***************************************************************************)

\* C3: when the scan's UID FETCH completed without error and before the
\* deadline (nothing has failed or timed out in the cycle, and the scan loop
\* was left by the closed channel or by a nil fetch result), the missing list
\* is exactly the UIDs of the mailbox that have no file at MessagePath, in
\* ascending order.
C3_MissingExact ==
    \A i \in Boxes :
        (/\ wk[i].pc = "download" /\ wk[i].k = 1
         /\ wk[i].exit \in {"closed", "fetchNil"}
         /\ run.clean)
        => wk[i].missing =
               FilterSeq(ScanRange(BoxOf(i), wk[i].uidNext),
                         {u \in 1..MaxUID :
                              ~Exists(MessagePath(BackupDir, BoxOf(i), u))})

\* C4: a cycle on a mailbox whose UIDs all have their file issues no body fetch
\* and counts nothing; so the cycle after one in which every fetch and every
\* write succeeded downloads nothing.
C4_SecondCycleEmpty ==
    /\ (\A i \in Boxes : \A u \in server[BoxOf(i)] :
            MessagePath(BackupDir, BoxOf(i), u) \in run.had)
       => /\ \A i \in Boxes : wk[i].missing = <<>> /\ wk[i].fetched = <<>>
          /\ files = run.had
          /\ rb.downloaded = 0
    /\ (run.n > 1 /\ run.prevClean) => rb.downloaded = 0

(***************************************************************************)
(* Properties of the scheduled mode (checked on SpecCron).                 *)
(***************************************************************************)

\* C2: in scheduled mode at most one runBackup is executing at any time,
\* whatever the interleaving of the initial run and the cron ticks.
C2_OneBackupAtATime ==
    Cardinality({b \in Backups : cr.backup[b] = "run"}) <= 1

(***************************************************************************)
(* Properties of the start of runBackup (checked on SpecAuth).             *)
(***************************************************************************)

\* C8: with a token file that holds an expired token and a refresh token the
\* user is not prompted; the token is refreshed and the token file holds a
\* different access token before anything is sent to the IMAP server.
C8_ExpiredTokenRefreshed ==
    (/\ au.file0.st = "token" /\ au.file0.AccessToken # 0
     /\ au.file0.Expiry = "past" /\ au.file0.RefreshToken)
    => /\ au.prompts = 0
       /\ au.sent # <<>> => /\ au.refreshes > 0
                            /\ au.file.st = "token"
                            /\ au.file.AccessToken # au.file0.AccessToken

\* C9 as stated: runBackup goes on to connect only when the email is set and
\* exactly one of the two credential variants is configured.
C9_ExactlyOneVariant ==
    au.dialed => /\ au.cfg.Email # ""
                 /\ UseOAuth2(au.cfg) # (au.cfg.Password # "")

\* C9, amended: runBackup ends before connecting whenever the email is empty or
\* neither credential variant is configured; with the email set and at least
\* one variant configured it goes on to connect, and uses OAuth2 (never the
\* password) when the client id and secret are both set.
C9_AtLeastOneVariant ==
    LET oauth == au.cfg.ClientID # "" /\ au.cfg.ClientSecret # ""
        password == au.cfg.Password # ""
        configured == au.cfg.Email # "" /\ (oauth \/ password)
    IN  /\ ~configured =>
              /\ au.pc \in {"check", "fatal"}
              /\ ~au.dialed /\ au.conn = "none"
              /\ au.pc = "fatal" =>
                    au.fatal = (IF au.cfg.Email = "" THEN "GMAIL_EMAIL is required"
                                ELSE "credentials required")
        /\ configured =>
              /\ au.fatal \notin {"GMAIL_EMAIL is required", "credentials required"}
              /\ au.pc \notin {"check", "dial"} => au.dialed
              /\ oauth => au.logins = 0
              /\ ~oauth => au.sent = <<>> /\ au.prompts = 0

\* C9 witness: the email, the password and the OAuth2 client are all set, and
\* the run has connected and authenticated with the OAuth2 token.
C9_BothConfiguredConnected ==
    /\ au.cfg = [Email |-> "e", Password |-> "p", ClientID |-> "id",
                 ClientSecret |-> "secret"]
    /\ au.pc = "connected"
    /\ au.authed
    /\ au.logins = 0
    /\ Len(au.sent) = 1

(***************************************************************************)
(* Properties of ProcessMailbox and of the end of runBackup.               *)
(***************************************************************************)

\* C11: SELECT is attempted at most 3 times; the worker sleeps 1 s after the
\* first failed attempt and 2 s after the second, and not after the third; a
\* mailbox whose attempts all failed is left without a scan or a body fetch.
C11_SelectBackoff ==
    \A i \in Boxes :
        /\ wk[i].retry <= 3
        /\ wk[i].slept = SubSeq(<<1, 2>>, 1, IF wk[i].retry < 2 THEN wk[i].retry ELSE 2)
        /\ wk[i].pc = "giveup" => sg[i] = NoScan /\ bg[i] = NoBody

\* every mailbox that passes the allow-list and that the loop has passed has
\* been given a worker
C12_Dispatched ==
    \A i \in Boxes :
        ((cfg.FoldersOnly = {} \/ BoxOf(i) \in cfg.FoldersOnly)
          /\ (i < rb.i \/ rb.pc \in {"wait", "done"}))
        => wk[i].pc # "idle"

\* the run is over and every worker that was started has ended
C12_AllEnded ==
    /\ rb.pc = "done"
    /\ \A i \in Boxes :
          (cfg.FoldersOnly = {} \/ BoxOf(i) \in cfg.FoldersOnly) => wk[i].pc = "exited"

\* C12: every mailbox that passes the allow-list is handed to a worker, and
\* whatever select, directory, scan, fetch or write failure occurs, the run
\* comes to its end with every one of these workers ended.
C12_EveryWorkerEnds == []C12_Dispatched /\ <>C12_AllEnded

\* C12 witness: a run of two workers is over; the worker of the first mailbox
\* failed before it made its directory, the worker of the second mailbox
\* stored a message.
C12_FailureBesideSuccess ==
    /\ C12_AllEnded
    /\ cfg.MaxWorkers = 2
    /\ server[mailboxes[1]] # {}
    /\ MailboxDir(BackupDir, mailboxes[1]) \notin dirs
    /\ MessagePath(BackupDir, mailboxes[2], 1) \in files

\* C13: runBackup reads the counter only after every worker it started has
\* ended: at and after the read no worker is running, the mutex is free and
\* the counter keeps the value that was read.
C13_ReadAfterAllEnded ==
    /\ rb.pc # "done" => rb.reported = -1
    /\ rb.pc = "done" =>
          /\ \A i \in Boxes : wk[i].pc \in {"idle", "exited"}
          /\ rb.wg = 0 /\ rb.sem = 0 /\ rb.mu = 0
          /\ rb.reported = rb.downloaded

\* C13 witness: the counter was read as 2 after both workers of a two-worker
\* run had stored a message and ended.
C13_ReadTwo ==
    /\ rb.pc = "done"
    /\ rb.reported = 2
    /\ cfg.MaxWorkers = 2
    /\ wk[1].pc = "exited" /\ wk[2].pc = "exited"
    /\ server[mailboxes[1]] # {} /\ server[mailboxes[2]] # {}

\* C14: no increment of the counter is lost: the counter equals the number of
\* increments performed, and an increment is in progress only in the one
\* worker that holds the mutex.
C14_NoLostIncrement ==
    /\ rb.downloaded = rb.incs
    /\ \A i \in Boxes : wk[i].pc = "unlock" <=> rb.mu = i

\* C14 witness: with two workers, one is inside its increment, having read
\* the counter, while the other waits for the mutex.
C14_Contention ==
    /\ cfg.MaxWorkers = 2
    /\ \E i, j \in Boxes :
          /\ wk[i].pc = "unlock" /\ wk[i].tmp = rb.downloaded
          /\ wk[j].pc = "lock"

\* C15: at the end of a run the counter equals the number of message files
\* written during the run (a failed write is not counted).
C15_CounterIsFilesWritten ==
    rb.pc = "done" => rb.downloaded = Cardinality(files \ run.had)

(***************************************************************************)
(* Properties of ListMailboxes (checked on SpecAuth).                      *)
(***************************************************************************)

\* C16 as stated: when LIST fails, ListMailboxes returns the error and no
\* mailbox names.
C16_NoNamesOnError ==
    au.pc = "listfail" => au.listErr = "err" /\ au.boxes = <<>>

\* C16, amended: when LIST fails, ListMailboxes returns the error together
\* with the selectable names received before it; runBackup ends the run on
\* that error, so the truncated list is never processed.  Without an error
\* the list is every selectable name, in the order received.
C16_NamesWithError ==
    LET selectable(n) ==
            LET l == SubSeq(ListItems, 1, n)
            IN  [k \in 1..Cardinality({x \in 1..n : ~l[x].NoSelect}) |->
                    l[CHOOSE x \in 1..n :
                          /\ ~l[x].NoSelect
                          /\ Cardinality({y \in 1..x : ~l[y].NoSelect}) = k].Name]
    IN  /\ au.pc \in {"list", "listfail", "listed"} => au.boxes = selectable(au.got)
        /\ au.pc = "listfail" => au.listErr = "err"
        /\ au.pc = "listed" => au.listErr = "nil" /\ au.got = Len(ListItems)
        /\ au.fatal = "Failed listing mailboxes" => au.listErr = "err"

\* C16 witness: LIST failed after INBOX and [Gmail] had arrived, and
\* ListMailboxes has returned the error with the one selectable name.
C16_TruncatedWithError ==
    /\ au.pc = "listfail"
    /\ au.got = 2
    /\ au.boxes = <<"INBOX">>
    /\ au.listErr = "err"

(***************************************************************************)
(* Properties of the files written (checked on Spec).                      *)
(***************************************************************************)

\* C17: a message path is written at most once: whenever a worker writes the
\* body it received (the step from the receive to the increment), no file
\* exists yet at the path, for every MaxWorkers.
C17_WriteOnce ==
    [][\A i \in Boxes :
          (wk[i].pc = "await" /\ wk'[i].pc = "lock")
          => ~Exists(MessagePath(BackupDir, BoxOf(i), wk[i].missing[wk[i].k]))]_vars

\* C18: no command of the engine changes the state of the server: every
\* mailbox is selected read-only, every body fetch asks for exactly one UID
\* with BODY.PEEK, and no message is marked \Seen and no mailbox is opened
\* read-write.
C18_ServerUntouched ==
    /\ flags = NoFlags
    /\ \A i \in Boxes :
          bg[i].st # "none" =>
              /\ bg[i].peek
              /\ bg[i].uids = {bg[i].uid}
              /\ bg[i].uid \in 1..MaxUID

\* C18 witness: the body of UID 2 was fetched from the selected mailbox and
\* its file stored.
C18_BodyFetched ==
    \E i \in Boxes :
        /\ bg[i].st = "ret"
        /\ bg[i].uid = 2
        /\ bg[i].on = BoxOf(i)
        /\ Exists(MessagePath(BackupDir, BoxOf(i), 2))
        /\ flags.readOnly

\* C19: in a dry run nothing is downloaded: no body fetch is issued to the
\* server and nothing is written to disk.
C19_DryRunNoBodyFetch ==
    cfg.DryRun =>
        /\ \A i \in Boxes : bg[i].st = "none" /\ wk[i].fetched = <<>>
        /\ files = {} /\ dirs = {}

(***************************************************************************)
(* Properties of the scan deadline (checked on SpecRunsFair; the messages  *)
(* are in the first mailbox).                                              *)
(***************************************************************************)

\* after the deadline of the scan, at its drain and at the start of the
\* download loop, the missing list is the UIDs received before the deadline
\* that have no file, in the order received; the download loop fetches from
\* that list only
C20_PoolIsObserved ==
    \A i \in Boxes :
        /\ (wk[i].exit = "timeout" /\ wk[i].pc \in {"drain", "download"})
           => wk[i].missing =
                  FilterSeq(wk[i].seen,
                            {u \in 1..MaxUID :
                                 MessagePath(BackupDir, BoxOf(i), u) \notin files})
        /\ wk[i].pc \in {"download", "await", "lock", "unlock"}
           => wk[i].fetched = SubSeq(wk[i].missing, 1, Len(wk[i].fetched))

C20_TimedOut == wk[1].pc = "drain" /\ wk[1].exit = "timeout"

C20_Proceeded == wk[1].pc \notin {"scan", "drain"}

\* C20: when the scan reaches its deadline, the missing list is exactly the
\* UIDs observed so far that are absent on disk, nothing else is fetched in
\* this run, and the worker goes on to the download loop.
C20_PartialScan == []C20_PoolIsObserved /\ (C20_TimedOut ~> C20_Proceeded)

\* C20 witness: in the second cycle the scan timed out after UID 1 of a
\* mailbox holding UIDs 1 and 2; UID 1 has its file, UID 2 has none, and the
\* download loop starts with nothing to fetch.
C20_TimedOutAfterOne ==
    /\ run.n = 2
    /\ server[mailboxes[1]] = {1, 2}
    /\ wk[1].pc = "download" /\ wk[1].exit = "timeout"
    /\ wk[1].seen = <<1>>
    /\ wk[1].missing = <<>>
    /\ files = {MessagePath(BackupDir, mailboxes[1], 1)}

(***************************************************************************)
(* Properties of the download loop (checked on SpecRuns)                   *)
(***************************************************************************)

\* the UIDs fetched so far are the first ones of the missing list, in its
\* order, one fetch each: k-1 of them between two iterations, k of them
\* while the k-th is awaited or stored
C21_FetchedIsPrefix ==
    \A i \in Boxes :
        /\ wk[i].pc = "download"
           => wk[i].fetched = SubSeq(wk[i].missing, 1, wk[i].k - 1)
        /\ wk[i].pc \in {"await", "lock", "unlock"}
           => /\ wk[i].k <= Len(wk[i].missing)
              /\ wk[i].fetched = SubSeq(wk[i].missing, 1, wk[i].k)
        /\ \A a, b \in 1..Len(wk[i].fetched) :
               wk[i].fetched[a] = wk[i].fetched[b] => a = b

\* ProcessMailbox returns from the download loop only when every UID of the
\* missing list has been fetched
C21_LeavesWhenAllFetched ==
    \A i \in Boxes :
        (wk[i].pc \in {"download", "await", "lock", "unlock"} /\ wk'[i].pc = "ret")
            => wk[i].fetched = wk[i].missing

\* C21: the download loop issues exactly one body fetch for each UID of the
\* missing list, in the order of the scan; a failure on one UID neither ends
\* the loop nor makes the UID be fetched again.
C21_OneFetchPerMissingUID == []C21_FetchedIsPrefix /\ [][C21_LeavesWhenAllFetched]_vars

\* C21 witness: the store of UID 1 failed (no file, the run is not dry) and
\* the body of UID 2 is awaited.
C21_SecondAfterFailedFirst ==
    /\ ~cfg.DryRun /\ run.n = 1
    /\ wk[1].pc = "await"
    /\ wk[1].missing = <<1, 2>> /\ wk[1].fetched = <<1, 2>>
    /\ files = {}
    /\ bg[1].uid = 2

\* C22: after every attempt on a UID, stored or not, the worker sleeps its
\* 50ms before the next body fetch: between two iterations of the download
\* loop the number of delays is the number of iterations done.
C22_PacedAfterEveryAttempt ==
    \A i \in Boxes : wk[i].pc = "download" => wk[i].paced = wk[i].k - 1

(***************************************************************************)
(* The order of the phases of one worker (checked on SpecRuns)             *)
(***************************************************************************)

\* the scan fetch exists only in a worker whose SELECT has succeeded on a
\* mailbox with messages; while the worker scans or drains it has no body
\* fetch, current or abandoned; a body fetch exists only in the download loop
C23_PhaseOrder ==
    \A i \in Boxes :
        /\ sg[i].st # "none"
           => /\ wk[i].messages > 0
              /\ wk[i].pc \in {"scan", "drain", "download"}
        /\ wk[i].pc \in {"idle", "select", "giveup", "ensureDir", "scan", "drain"}
           => bg[i].st = "none" /\ linger[i].body = 0
        /\ bg[i].st # "none"
           => wk[i].pc \in {"download", "await", "lock", "unlock"}

\* the missing list grows in the scan loop only, by the UID just received and
\* only if that UID has no file; a body fetch is started from the download
\* loop, after the scan loop, for a UID of the missing list
C23_FetchesWhatScanMissed ==
    \A i \in Boxes :
        /\ (wk'[i].missing # wk[i].missing /\ wk'[i].missing # <<>>)
           => /\ wk[i].pc = "scan" /\ wk'[i].pc = "scan"
              /\ wk'[i].seen # <<>>
              /\ LET u == wk'[i].seen[Len(wk'[i].seen)]
                 IN  /\ wk'[i].missing = Append(wk[i].missing, u)
                     /\ ~Exists(MessagePath(BackupDir, BoxOf(i), u))
        /\ (bg'[i] # bg[i] /\ bg'[i].st = "start")
           => /\ wk[i].pc = "download"
              /\ \E n \in 1..Len(wk[i].missing) : bg'[i].uid = wk[i].missing[n]

\* C23: in one worker the scan fetch comes after a successful SELECT and a
\* body fetch after the scan loop; no body is requested during the scan, and
\* every body fetch is for a UID the scan saw and found without a file.
C23_SelectScanDownload == []C23_PhaseOrder /\ [][C23_FetchesWhatScanMissed]_vars

\* C23 witness: in the second cycle UID 1 has its file, the scan is over and
\* the body of UID 2, the only missing one, is requested.
C23_BodyOfMissingRequested ==
    /\ run.n = 2
    /\ files = {MessagePath(BackupDir, mailboxes[1], 1)}
    /\ wk[1].pc = "await" /\ wk[1].missing = <<2>>
    /\ sg[1].st = "none"
    /\ bg[1].st = "start" /\ bg[1].uid = 2

(***************************************************************************)
(* Termination of a worker (checked on SpecQuiet)                          *)
(***************************************************************************)

\* C24: once its SELECT calls have returned a worker comes to the end of
\* ProcessMailbox, whether or not the server answers the scan fetch and the
\* body fetches: each wait ends at its deadline at the latest.
C24_WorkerEndsWithoutServer ==
    \A i \in 1..Len(BoxNames) :
        (wk[i].pc \in {"giveup", "ensureDir"})
            ~> (wk[i].pc \in {"ret", "released", "exited"})

\* C24 witness: the scan fetch stopped answering after UID 1 of two, the body
\* fetch of UID 1 was never answered; both are abandoned and still in flight,
\* and the worker is at the end of its download loop.
C24_BothFetchesUnanswered ==
    /\ server[mailboxes[1]] = {1, 2}
    /\ wk[1].pc = "download" /\ wk[1].k = 2
    /\ wk[1].missing = <<1>>
    /\ linger[1].scan = 1 /\ linger[1].body = 1

(***************************************************************************)
(* The slot of a worker (checked on SpecFair)                              *)
(***************************************************************************)

\* the slots taken are those of the workers that have been started and have
\* not yet given theirs back; when wg.Wait has returned none is taken
C25_SlotsAreRunningWorkers ==
    /\ rb.sem = Cardinality({i \in Boxes : wk[i].pc \notin {"idle", "released", "exited"}})
    /\ rb.pc = "done" => rb.sem = 0

\* a worker whose ProcessMailbox has returned does nothing but give its slot
\* back; it gives it back once, and a slot is given back only so
C25_ReleaseStep ==
    /\ \A i \in Boxes :
          /\ wk[i].pc = "ret" => wk'[i].pc \in {"ret", "released"}
          /\ (wk[i].pc # "released" /\ wk'[i].pc = "released")
             => wk[i].pc = "ret" /\ rb'.sem = rb.sem - 1
          /\ wk[i].pc = "released" => wk'[i].pc \in {"released", "exited"}
          /\ wk[i].pc = "exited" => wk'[i].pc = "exited"
    /\ rb'.sem < rb.sem
       => \E i \in Boxes : wk[i].pc = "ret" /\ wk'[i].pc = "released"

\* C25: the slot of a worker is given back exactly once, by whatever path
\* ProcessMailbox returns, and after wg.Wait no slot is held.
C25_SlotReleasedOnce == []C25_SlotsAreRunningWorkers /\ [][C25_ReleaseStep]_vars

\* C25 witness: the run is over with no slot held; the first worker returned
\* before it made its directory, the second after it stored a message, the
\* third from an empty mailbox.
C25_AllPathsReleased ==
    /\ rb.pc = "done" /\ rb.sem = 0
    /\ \A i \in Boxes : wk[i].pc = "exited"
    /\ server[mailboxes[1]] # {}
    /\ MailboxDir(BackupDir, mailboxes[1]) \notin dirs
    /\ MessagePath(BackupDir, mailboxes[2], 1) \in files
    /\ server[mailboxes[3]] = {}

(***************************************************************************)
(* Properties of the OAuth2 start of a run (checked on SpecAuth)           *)
(***************************************************************************)

\* the token source has failed: the token in hand has expired and could not
\* be replaced (no other step leaves an expired token in authenticateOAuth2)
C26_RefreshFailed == au.token.st = "token" /\ au.token.Expiry = "past"

\* after a failed refresh Connect has returned its error and runBackup has
\* ended with it, unauthenticated, with no payload sent and no mailbox listed
C26_AbortedUnsent ==
    C26_RefreshFailed
    => /\ au.pc = "fatal" /\ au.fatal = "IMAP connect failed"
       /\ au.sent = <<>>
       /\ ~au.authed
       /\ au.got = 0 /\ au.boxes = <<>>

\* C26: when the token source cannot produce a token the run is aborted: no
\* AUTHENTICATE payload is sent, no interactive login follows, Connect
\* returns an error and the run never comes to its mailboxes.
C26_RefreshFailureIsFatal == []C26_AbortedUnsent /\ [][C26_RefreshFailed => au' = au]_vars

\* C26 witness: the cached token was loaded, expired before the SASL start,
\* and its refresh was tried and failed; nobody was prompted.
C26_CachedTokenRefreshFailed ==
    /\ C26_RefreshFailed
    /\ au.file0.st = "token" /\ au.file0.RefreshToken
    /\ au.refreshes = 1
    /\ au.prompts = 0
    /\ au.pc = "fatal"

(***************************************************************************)
(* The whole run (checked on SpecWhole)                                    *)
(***************************************************************************)

\* the engine has not moved: no worker started, no mailbox selected, nothing
\* on disk, no counter reported
EngineUntouched ==
    /\ rb = StartOfRun
    /\ \A i \in Boxes : wk[i].pc = "idle"
    /\ selected = NoBox
    /\ files = {} /\ dirs = {}

\* the user is asked at most once, and a step that asks is taken with the
\* connection not yet authenticated, nothing listed and the engine untouched
C27_PromptStep ==
    au'.prompts # au.prompts
    => /\ au.prompts = 0 /\ au'.prompts = 1
       /\ ~au.authed
       /\ au.got = 0 /\ au.boxes = <<>>
       /\ EngineUntouched

\* once a worker has been started the run is in its dispatch phase, which
\* has no step that reads from the terminal
C27_WorkersAfterStart ==
    (\E i \in Boxes : wk[i].pc # "idle") => au.pc = "running"

\* C27: in one run the user is asked for an authorization code at most
\* once, before the mailboxes are listed and before any worker is started;
\* no worker waits for the terminal.
C27_PromptOnceBeforeWorkers ==
    /\ [](au.prompts <= 1 /\ C27_WorkersAfterStart)
    /\ [][C27_PromptStep /\ (au.pc = "running" => au' = au)]_vars

\* C27 witness: the user was asked once, and afterwards a worker is
\* waiting for the body of a message.
C27_PromptedThenWorking ==
    /\ au.prompts = 1
    /\ au.pc = "running"
    /\ wk[1].pc = "await"

(***************************************************************************)
(* The cached token (checked on SpecAuth)                                  *)
(***************************************************************************)

\* nobody is asked and no authorization code is exchanged
C28_NoInteractiveLogin ==
    /\ au.prompts = 0
    /\ au.pc \notin {"prompt", "exchange"}
    /\ au.minted > 0 => au.refreshes > 0

C29_StartFailed == au.pc = "fatal" \/ au.listErr = "err"

\* after a failure of the start the run is over or about to be, and the
\* engine has not moved: no worker, no mailbox selected, no mailbox
\* directory and no message file, no counter reported; nothing follows
C29_FatalBeforeWorkers ==
    C29_StartFailed
    => /\ au.pc \in {"fatal", "listfail"}
       /\ EngineUntouched
       /\ rb.reported = -1

\* C29: a failure to connect, to authenticate or to list the mailboxes ends
\* the run before any worker starts, with no mailbox selected, nothing made
\* on disk and no counter reported; once the workers run, no failure of
\* theirs ends the run: it goes on to its report.
C29_OnlyStartIsFatal ==
    /\ []C29_FatalBeforeWorkers
    /\ [][au.pc = "fatal" => UNCHANGED vars]_vars
    /\ (au.pc = "running") ~> (au.pc = "running" /\ rb.pc = "done")

\* C29 witness: the connection was authenticated, the listing failed after
\* the first name, and the run has ended with that error.
C29_ListingFailed ==
    /\ au.authed
    /\ au.got = 1 /\ au.listErr = "err"
    /\ au.pc = "fatal" /\ au.fatal = "Failed listing mailboxes"

(***************************************************************************)
(* The scan in chunks (checked on SpecChunk)                               *)
(***************************************************************************)
\* the UIDs of the ranges asked so far
AskedUIDs(i) ==
    UNION {wk[i].asked[n][1]..wk[i].asked[n][2] : n \in 1..Len(wk[i].asked)}

\* what the scan of one range 1:(uidNext-1) finds missing
SingleRangeMissing(i) ==
    FilterSeq(ScanRange(BoxOf(i), wk[i].uidNext),
              {u \in 1..MaxUID : ~Exists(MessagePath(BackupDir, BoxOf(i), u))})

\* C30: the scan in chunks gives what the scan of one range gives: at its
\* end the ranges asked are disjoint and cover exactly 1..uidNext-1, and
\* when no chunk has failed the missing list is that of the single range;
\* a chunk that has been asked can be answered to its end.
C30_ChunksAsSingleRange ==
    \A i \in Boxes :
        /\ wk[i].pc = "scanned"
           => /\ AskedUIDs(i) = 1..(wk[i].uidNext - 1)
              /\ \A m, n \in 1..Len(wk[i].asked) :
                     m < n => wk[i].asked[m][2] < wk[i].asked[n][1]
              /\ run.clean => wk[i].missing = SingleRangeMissing(i)
        /\ (wk[i].pc = "chunkwait" /\ sg[i].st = "run" /\ sg[i].todo # <<>>)
           => Len(uidMsgs[i].buf) < ChunkCap

(***************************************************************************)
(* The report of a worker (checked on Spec)                                *)
(***************************************************************************)

\* C31: a worker that has come to its end, by whatever path, has reported
\* its three counts: scanned, missing, stored.
C31_TerminalReportsCounts ==
    \A i \in Boxes :
        wk[i].pc \in {"ret", "released", "exited"}
        => \E n \in 1..Len(Logged(i)) :
               {"scanned", "missing", "stored"} \subseteq DOMAIN Logged(i)[n]

\* C32: a worker has at most one UID FETCH in flight: when it issues a body
\* fetch, no body fetch it has abandoned at its deadline is still unanswered.
C32_OneFetchOutstanding ==
    \A i \in Boxes : bg[i].st = "start" => linger[i].body = 0

(***************************************************************************)
(* The size of the pool (checked on SpecPool)                              *)
(***************************************************************************)

\* C33: whatever MaxWorkers LoadConfig produces, the semaphore is made and
\* the dispatcher is never left waiting for a slot that nobody holds.
C33_DispatcherNeverStuck ==
    /\ rb.pc # "panic"
    /\ (rb.pc = "loop" /\ rb.i <= Len(mailboxes) /\ Allowed(mailboxes[rb.i]) /\ ~SemFree)
       => \E i \in Boxes : wk[i].pc \notin {"idle", "released", "exited"}

(***************************************************************************)
(* The directory of a mailbox (checked on Spec, one worker at a time)      *)
(***************************************************************************)

\* C34: distinct mailboxes have distinct directories, so that the file at
\* MessagePath(base, box, uid) exists only if that UID of that mailbox was
\* stored: with one worker, a message file of a mailbox is a UID it holds.
C34_FileOfItsMailbox ==
    cfg.MaxWorkers = 1
    => \A i \in Boxes, u \in 1..MaxUID :
           Exists(MessagePath(BackupDir, BoxOf(i), u)) => u \in server[BoxOf(i)]

\* C35: in the scan that calls UidFetch in the worker and reads the channel
\* afterwards, UidFetch can always go on: it has sent everything, or the
\* channel has room for the next message.
C35_SenderNeverBlocked ==
    \A i \in Boxes :
        (wk[i].pc = "chunkwait" /\ sg[i].st = "run")
        => (sg[i].todo = <<>> \/ Len(uidMsgs[i].buf) < ChunkCap)

(***************************************************************************)
(* The arithmetic on UidNext (checked on SpecWrap)                         *)
(***************************************************************************)

\* a range asked is the one the same computation gives in the integers: its
\* upper bound is not the result of a wrap-around
C36_RangesExact ==
    \A i \in Boxes :
        /\ (wk[i].variant = "single" /\ wk[i].pc = "ranged")
           => wk[i].asked[1][2] = wk[i].uidNext - 1
        /\ (wk[i].variant \in {"main", "part"} /\ wk[i].asked # <<>>)
           => /\ wk[i].asked[1][1] <= wk[i].asked[1][2]
              /\ wk[i].asked[1][2] <= wk[i].uidNext
        /\ wk[i].k <= MaxChunks

\* an iteration of a chunk loop moves chunkStart up by the chunk size
C36_ChunkStartGrows ==
    \A i \in Boxes :
        (wk[i].pc = "chunk" /\ wk'[i].pc = "chunk" /\ wk'[i].k # wk[i].k)
        => wk'[i].chunkStart = wk[i].chunkStart + WrapChunkSize

\* C36: the unsigned arithmetic on uidNext never wraps: uidNext-1 is not an
\* underflow, chunkStart+chunkSize and chunkStart+chunkSize-1 do not
\* overflow, chunkStart grows at every iteration and the chunk loop ends.
C36_NoWrapAround == []C36_RangesExact /\ [][C36_ChunkStartGrows]_vars

\* C37: in scheduled mode the running flag is 1 as long as a backup is in
\* progress: it is never 0 while a runBackup started by main or by a tick is
\* still executing, and a run that has returned is the one that resets it.
C37_FlagSetWhileRunning ==
    (cr.CronSchedule = "valid" /\ ~cr.exited)
    => /\ (\E b \in Backups : cr.backup[b] = "run") => cr.running = 1
       /\ cr.running = 0 => \A b \in Backups : cr.backup[b] \in {"none", "done"}

\* C38: when the authentication (the password login or the OAuth2 exchange)
\* fails after the TLS connection was dialed, Connect has closed that
\* connection when it returns the error: no connection is left open.
C38_ClosedOnAuthFailure ==
    (au.on /\ au.fatal = "IMAP connect failed") => au.conn # "open"

(***************************************************************************)
(* The XOAUTH2 SASL client (checked on SpecAuth)                           *)
(***************************************************************************)

\* the calls of Next have returned an empty response first and end-of-exchange
\* after it, Completed holds from the first call on, Next is called only
\* after Start has yielded its one payload, and a Start whose token function
\* failed has yielded none
C39_OneRoundTrip ==
    au.on =>
       /\ au.nexts \in {<<>>, <<"empty">>, <<"empty", "EOF">>}
       /\ Completed(au) <=> au.nexts # <<>>
       /\ au.nexts # <<>> => Len(au.sent) = 1
       /\ Len(au.sent) <= 1
       /\ C26_RefreshFailed => au.sent = <<>> /\ au.nexts = <<>>

\* C39: the XOAUTH2 client performs a single round trip: Start yields the
\* initial response with the token, the first Next returns an empty response
\* without error and makes Completed true, every later Next returns
\* end-of-exchange, Completed never returns to false, and a Start whose token
\* function fails returns the error and no payload.
C39_SingleRoundTrip ==
    []C39_OneRoundTrip /\ [][au.on /\ Completed(au) => Completed(au')]_vars

\* C39 witness: Start has sent its payload, Next has answered a first challenge
\* with an empty response and a second one with end-of-exchange, and
\* Authenticate has failed.
C39_SecondChallenge ==
    /\ au.on /\ au.nexts = <<"empty", "EOF">>
    /\ Len(au.sent) = 1 /\ Completed(au)
    /\ au.pc = "fatal"

====
